---------------------------- MODULE Spec2Model ----------------------------
(***************************************************************************)
(* A model of matlab-beautifier (src/src/main.rs, src/src/beautifier.rs).  *)
(*                                                                         *)
(* The program parses each input with tree-sitter, refuses trees with      *)
(* syntax errors, and renders the tree with a recursive dispatcher that    *)
(* threads one mutable State (formatted, col, row, level,                  *)
(* extra_indentation) and a mutable reference to the Arguments.            *)
(*                                                                         *)
(* Text is modelled as sequences of one-character strings, so that         *)
(* string.len() is Len.  The recursion of the dispatcher is modelled by an *)
(* explicit control stack: a frame is either a pending call of format_node *)
(* or the position of a formatting routine that waits for a callee.  The   *)
(* `?` operator of the source unwinds every frame at once.                 *)
(***************************************************************************)
EXTENDS Integers, Sequences, FiniteSets, TLC

VARIABLES
    cli,                \* the command line as given (what Arguments::parse reads)
    arguments,          \* main's `options`: the Arguments value every pass borrows
    disk,               \* per input: the parse of its current content
    written,            \* per input: the texts written back so far (std::fs::write)
    results,            \* per input: outcome of the last pass of this run
    stdout,             \* the characters the formatter streamed to the output sink
    log,                \* main's own status messages, in order
    pc,                 \* position of main: "start", "file", "pass", "exit", "panic"
    idx,                \* index of the file the for loop of main is at
    run,                \* how many times the program has been started
    state,              \* the State of the running pass (Dropped outside a pass)
    stack,              \* control stack of the traversal
    marks,              \* where each statement of the pass begins and ends in the output
    later,              \* the command line of the next start of the program
    trail,              \* the cursor after every step of the pass: emitted length, col, row
    shadow              \* the output and the trail of the last pass of the previous run

vars == <<cli, arguments, disk, written, results, stdout, log, pc, idx, run,
          state, stack, marks, later, trail, shadow>>

-----------------------------------------------------------------------------
(* Bounds of the model.                                                    *)

MaxStmts == 2       \* statements per generated block
MaxGap == 2         \* source rows between two adjacent statements (0 = same row)
MaxFiles == 3       \* files on the command line
MaxRuns == 2        \* program starts (the second one re-formats the first's output)
MaxDepth == 2       \* nesting depth of the generated compound statements
MaxRows == 3        \* rows of a matrix or cell literal
MaxCmds == 3        \* statements of a block of cvx commands

-----------------------------------------------------------------------------
(* Text: sequences of characters.                                          *)

NL == "\n"

Spaces(n) == [i \in 1..n |-> " "]

IsWhite(c) == c \in {" ", NL, "\t"}

starts_with(t, p) == Len(t) >= Len(p) /\ SubSeq(t, 1, Len(p)) = p

\* str::strip_prefix(p).unwrap_or(t)
strip_prefix_or(t, p) == IF starts_with(t, p) THEN SubSeq(t, Len(p) + 1, Len(t)) ELSE t

RECURSIVE trim_start(_)
trim_start(t) ==
    IF t # <<>> /\ IsWhite(Head(t)) THEN trim_start(Tail(t)) ELSE t

RECURSIVE trim_end(_)
trim_end(t) ==
    IF t # <<>> /\ IsWhite(t[Len(t)]) THEN trim_end(SubSeq(t, 1, Len(t) - 1)) ELSE t

trim(t) == trim_end(trim_start(t))

\* str::split('\n'): the pieces between line breaks, empty ones included
split_lines(t, cur) ==
    LET breaks == {i \in 1..Len(t) : t[i] = NL}
        n == Cardinality(breaks)
        at(k) == IF k = 0 THEN 0
                 ELSE IF k > n THEN Len(t) + 1
                 ELSE CHOOSE i \in breaks : Cardinality({j \in breaks : j <= i}) = k
    IN  [k \in 1..(n + 1) |->
            (IF k = 1 THEN cur ELSE <<>>) \o SubSeq(t, at(k - 1) + 1, at(k) - 1)]

\* the number of line breaks in a text
CountNL(t) == Cardinality({i \in 1..Len(t) : t[i] = NL})

-----------------------------------------------------------------------------
(* Syntax nodes (tree_sitter::Node).  Every node carries its kind, whether *)
(* it is named, whether it is an extra, the field name it has in its       *)
(* parent, its source text (leaves), whether that text fails to decode,    *)
(* its children and its start and end rows.  `gap` is the number of source *)
(* rows between the end of the previous sibling and the start of the node; *)
(* only Place reads it, to lay the rows out.                               *)

Node(kind, named, text, children) ==
    [kind |-> kind, named |-> named, extra |-> FALSE, field |-> "", text |-> text,
     bad |-> FALSE, children |-> children, gap |-> 0, srow |-> 0, erow |-> 0]

Leaf(kind, text) == Node(kind, TRUE, text, <<>>)
Tok(text) == Node("token", FALSE, text, <<>>)
Tree(kind, children) == Node(kind, TRUE, <<>>, children)
Field(n, f) == [n EXCEPT !.field = f]
Gap(n, g) == [n EXCEPT !.gap = g]
Extra(n) == [n EXCEPT !.extra = TRUE]

\* Lay out the rows of a tree whose first token is on row r.
RECURSIVE Place(_, _)
RECURSIVE PlaceAll(_, _)
PlaceAll(children, r) ==
    IF children = <<>> THEN <<>>
    ELSE LET c == Place(Head(children), r)
         IN  <<c>> \o PlaceAll(Tail(children), c.erow)
Place(n, r) ==
    LET s == r + n.gap
        cs == PlaceAll(n.children, s)
    IN  [n EXCEPT !.srow = s, !.children = cs,
                  !.erow = IF cs = <<>> THEN s + CountNL(n.text) ELSE cs[Len(cs)].erow]

Named(children) == SelectSeq(children, LAMBDA c : c.named)


\* child_by_field_name: index of the first child with that field name, 0 when absent
FieldIndex(n, f) ==
    IF \E i \in 1..Len(n.children) : n.children[i].field = f
    THEN CHOOSE i \in 1..Len(n.children) :
            /\ n.children[i].field = f
            /\ \A j \in 1..(i - 1) : n.children[j].field # f
    ELSE 0

\* Iterator::find over children: index of the first child satisfying P, 0 when none
FindIndex(n, P(_)) ==
    IF \E i \in 1..Len(n.children) : P(n.children[i])
    THEN CHOOSE i \in 1..Len(n.children) :
            /\ P(n.children[i])
            /\ \A j \in 1..(i - 1) : ~P(n.children[j])
    ELSE 0

-----------------------------------------------------------------------------
(* struct State and its methods.  The helpers work on a record that holds  *)
(* the fields of State together with the output sink.                      *)

Dropped == [formatted |-> <<>>, col |-> 0, row |-> 0, level |-> 0, extra_indentation |-> 0]

World == [formatted |-> state.formatted, col |-> state.col, row |-> state.row,
          level |-> state.level, extra_indentation |-> state.extra_indentation,
          stdout |-> stdout]

StateOf(w) == [formatted |-> w.formatted, col |-> w.col, row |-> w.row,
               level |-> w.level, extra_indentation |-> w.extra_indentation]

\* (the variant leaves the column where it is)
print_uncounted(w, string) ==
    [w EXCEPT !.formatted = IF arguments.inplace THEN @ \o string ELSE @,
              !.stdout = IF arguments.inplace THEN @ ELSE @ \o string]

print(w, string) ==
    [w EXCEPT !.formatted = IF arguments.inplace THEN @ \o string ELSE @,
              !.stdout = IF arguments.inplace THEN @ ELSE @ \o string,
              !.col = @ + Len(string)]

\* (the variant forgets the line break in the buffer)
println_joined(w, string) ==
    [w EXCEPT !.formatted = IF arguments.inplace THEN @ \o string ELSE @,
              !.stdout = IF arguments.inplace THEN @ ELSE @ \o string \o <<NL>>,
              !.col = 0,
              !.row = @ + 1]

println(w, string) ==
    [w EXCEPT !.formatted = IF arguments.inplace THEN @ \o string \o <<NL>> ELSE @,
              !.stdout = IF arguments.inplace THEN @ ELSE @ \o string \o <<NL>>,
              !.col = 0,
              !.row = @ + 1]

\* (the variant leaves out the spaces of the level)
indent_flat(w) == print(w, Spaces(w.extra_indentation))
indent(w) == print(print(w, Spaces(4 * w.level)), Spaces(w.extra_indentation))

\* (the variant sets the column whatever the current one)
set_extra_indentation(w, value) == [w EXCEPT !.extra_indentation = value]

maybe_set_extra_indentation(w, value) ==
    IF w.extra_indentation = 0 THEN [w EXCEPT !.extra_indentation = value] ELSE w

\* the text emitted so far by the running pass, whichever the output mode
Emitted(w) == IF arguments.inplace THEN w.formatted ELSE w.stdout

-----------------------------------------------------------------------------
(* format_node: the dispatch table from node kind to formatting routine.   *)

format_node(kind) ==
    CASE kind = "arguments_statement" -> "format_arguments_statement"
      [] kind = "assignment" -> "format_assignment"
      [] kind = "binary_operator" -> "format_binary"
      [] kind = "block" -> "format_block"
      [] kind = "boolean_operator" -> "format_boolean"
      [] kind = "cell" -> "format_matrix"
      [] kind = "class_definition" -> "format_classdef"
      [] kind = "command" -> "format_command"
      [] kind = "comment" -> "format_comment"
      [] kind = "comparison_operator" -> "format_boolean"
      [] kind = "field_expression" -> "format_field"
      [] kind = "for_statement" -> "format_for"
      [] kind = "function_call" -> "format_fncall"
      [] kind = "function_definition" -> "format_function"
      [] kind = "global_operator" -> "format_global"
      [] kind = "handle_operator" -> "format_unary"
      [] kind = "if_statement" -> "format_if"
      [] kind = "indirect_access" -> "format_parenthesis"
      [] kind = "lambda" -> "format_lambda"
      [] kind = "line_continuation" -> "format_line_continuation"
      [] kind = "matrix" -> "format_matrix"
      [] kind = "metaclass_operator" -> "format_unary"
      [] kind = "multioutput_variable" -> "format_multioutput"
      [] kind = "not_operator" -> "format_unary"
      [] kind = "parenthesis" -> "format_parenthesis"
      [] kind = "persistent_operator" -> "format_global"
      [] kind = "postfix_operator" -> "format_unary"
      [] kind = "property" -> "format_property"
      [] kind = "property_name" -> "format_property_name"
      [] kind = "range" -> "format_range"
      [] kind = "row" -> "format_row"
      [] kind = "switch_statement" -> "format_switch"
      [] kind = "try_statement" -> "format_try"
      [] kind = "unary_operator" -> "format_unary"
      [] kind = "while_statement" -> "format_while"
      [] OTHER -> "print_node"

-----------------------------------------------------------------------------
(* The control stack.  A call frame is a pending call of a formatting      *)
(* routine on a node; `path` is the node's place in the tree, `prev` and   *)
(* `next` are its named siblings (prev_named_sibling, next_named_sibling). *)

Entry(n, path) == [node |-> n, path |-> path]

CallTo(routine, n, path, prev, next) ==
    [op |-> routine, node |-> n, path |-> path, prev |-> prev, next |-> next]

\* the named siblings of child i of parent, as entries, before and after it
RECURSIVE SiblingEntries(_, _, _, _)
SiblingEntries(parent, ppath, from, to) ==
    IF from > to THEN <<>>
    ELSE (IF parent.children[from].named
          THEN <<Entry(parent.children[from], Append(ppath, from))>>
          ELSE <<>>) \o SiblingEntries(parent, ppath, from + 1, to)

\* format_node(state, parent.child(i))
Call(parent, ppath, i) ==
    CallTo(format_node(parent.children[i].kind), parent.children[i], Append(ppath, i),
           SiblingEntries(parent, ppath, 1, i - 1),
           SiblingEntries(parent, ppath, i + 1, Len(parent.children)))

\* a formatting routine called directly on child i, past the dispatcher
CallDirect(routine, parent, ppath, i) ==
    [Call(parent, ppath, i) EXCEPT !.op = routine]

Top == stack[1]
Rest == Tail(stack)
Running(routine) == pc = "pass" /\ stack # <<>> /\ Top.op = routine

NoMarks == [p \in {} |-> 0]

\* A step of the pass: the State and the sink become w, the control stack stk.
Cursor(w) == [n |-> Len(Emitted(w)), col |-> w.col, row |-> w.row]

Step(w, stk) ==
    /\ state' = StateOf(w)
    /\ stdout' = w.stdout
    /\ stack' = stk
    /\ trail' = Append(trail, Cursor(w))
    /\ UNCHANGED <<cli, disk, written, results, log, pc, idx, run, later, shadow>>

\* The error value of a failed pass: what made it, and whether its message names
\* a place in the source (err_at_loc does, with the row of the node it is given).
NoError == [kind |-> "none", located |-> FALSE, row |-> 0]
err_at_loc(node) == [kind |-> "access", located |-> TRUE, row |-> node.srow]
Utf8Error == [kind |-> "utf8", located |-> FALSE, row |-> 0]
SyntaxError == [kind |-> "syntax", located |-> FALSE, row |-> 0]

\* what beautify returned for the file the loop is at, and the tree it was given
Outcome(status, text, error) ==
    [status |-> status, text |-> text, tree |-> disk[idx].root, error |-> error]
NoOutcome == [status |-> "none", text |-> <<>>, tree |-> <<>>, error |-> NoError]

\* A `?` of the source meets an Err: the routines return one after the other
\* without running anything more, up to beautify, which returns the error.
Fail(w, error) ==
    /\ state' = StateOf(w)
    /\ stdout' = w.stdout
    /\ results' = [results EXCEPT ![idx] = Outcome("err", <<>>, error)]
    /\ pc' = "failed"
    /\ trail' = Append(trail, Cursor(w))
    /\ UNCHANGED <<cli, disk, written, log, idx, run, stack, marks, later, shadow>>

\* a panic inside the pass (an unwrap on a failed decode): the process dies
Panic(w) ==
    /\ state' = Dropped
    /\ stdout' = w.stdout
    /\ stack' = <<>>
    /\ marks' = NoMarks
    /\ pc' = "panic"
    /\ trail' = Append(trail, Cursor(w))
    /\ UNCHANGED <<cli, disk, written, results, log, idx, run, later, shadow>>

-----------------------------------------------------------------------------
(* tree_sitter::Parser::parse applied to text the formatter wrote: the     *)
(* nodes are the ones that were rendered, and every statement lies on the  *)
(* output rows on which its text was emitted; nodes inside a statement     *)
(* keep their row offsets to it.  A comment statement has the text that    *)
(* was emitted for it, from its "%" on.                                    *)

RECURSIVE Relayout(_, _, _, _)
RECURSIVE RelayoutAll(_, _, _, _, _)
RelayoutAll(children, ppath, i, shift, m) ==
    IF i > Len(children) THEN <<>>
    ELSE <<Relayout(children[i], Append(ppath, i), shift, m)>>
         \o RelayoutAll(children, ppath, i + 1, shift, m)
Relayout(n, path, shift, m) ==
    LET here == path \in DOMAIN m
        s == IF here THEN m[path].s ELSE n.srow + shift
        e == IF here THEN m[path].e ELSE n.erow + shift
    IN  [n EXCEPT !.srow = s, !.erow = e,
                  !.text = IF here /\ n.kind = "comment" THEN trim_start(m[path].text)
                           ELSE @,
                  !.children = RelayoutAll(n.children, path, 1, s - n.srow, m)]

Reparse(root, m) == Relayout(root, <<>>, 0, m)

-----------------------------------------------------------------------------
(* main and beautify_file.                                                 *)

Flags(c) == [sparse_math |-> c.sparse_math, sparse_add |-> c.sparse_add,
             inplace |-> c.inplace]

\* main: Arguments::parse, then the adjustment of `inplace` to the number of files
MainStart ==
    /\ pc = "start"
    /\ arguments' = [arguments EXCEPT !.inplace =
                        IF cli.files = 0 THEN FALSE
                        ELSE IF cli.files > 1 THEN TRUE ELSE @]
    /\ idx' = 1
    /\ pc' = "file"
    /\ UNCHANGED <<cli, disk, written, results, stdout, log, run, state, stack, marks,
                   later, trail, shadow>>

\* root.has_error(); the variant is a beautify without the test
has_error_ignored(input) == FALSE
has_error(input) == input.has_error

\* beautify_file up to the call of format_block on the root: the input is read
\* and parsed; a tree with a syntax error is refused before a State exists.
BeautifyFile ==
    /\ pc = "file"
    /\ idx <= Len(disk)
    /\ LET announced == IF arguments.inplace THEN Append(log, "Formatting file") ELSE log
       IN  IF has_error(disk[idx])
           THEN /\ results' = [results EXCEPT ![idx] = Outcome("err", <<>>, SyntaxError)]
                /\ IF arguments.inplace
                   THEN /\ log' = Append(announced, "could not format file.")
                        /\ idx' = idx + 1
                        /\ pc' = "file"
                   ELSE /\ log' = announced
                        /\ pc' = "panic"
                        /\ idx' = idx
                /\ UNCHANGED <<state, stack>>
           ELSE /\ state' = [formatted |-> <<>>, col |-> 0, row |-> 0, level |-> 0,
                             extra_indentation |-> 0]
                /\ stack' = <<CallTo("format_block", disk[idx].root, <<>>, <<>>, <<>>)>>
                /\ pc' = "pass"
                /\ log' = announced
                /\ UNCHANGED <<results, idx>>
    /\ marks' = NoMarks
    /\ trail' = <<>>
    /\ UNCHANGED <<cli, arguments, disk, written, stdout, run, later, shadow>>

\* format_block on the root returned Ok: beautify returns state.formatted and
\* beautify_file writes it back in in-place mode.
BeautifyReturn ==
    /\ pc = "pass"
    /\ stack = <<>>
    /\ results' = [results EXCEPT ![idx] = Outcome("ok", state.formatted, NoError)]
    /\ IF arguments.inplace
       THEN /\ written' = [written EXCEPT ![idx] = Append(@, state.formatted)]
            /\ disk' = [disk EXCEPT ![idx] =
                          [root |-> Reparse(disk[idx].root, marks), has_error |-> FALSE]]
            /\ log' = Append(log, "file formatted and overwritten.")
       ELSE UNCHANGED <<written, disk, log>>
    /\ state' = Dropped
    /\ marks' = NoMarks
    /\ idx' = idx + 1
    /\ pc' = "file"
    /\ UNCHANGED <<cli, arguments, stdout, run, stack, later, trail, shadow>>

\* beautify returned Err: the State is dropped with the pass; beautify_file
\* prints a message in in-place mode and panics otherwise.
BeautifyFails ==
    /\ pc = "failed"
    /\ state' = Dropped
    /\ stack' = <<>>
    /\ marks' = NoMarks
    /\ IF arguments.inplace
       THEN /\ log' = Append(log, "could not format file.")
            /\ pc' = "file"
            /\ idx' = idx + 1
       ELSE /\ pc' = "panic"
            /\ UNCHANGED <<log, idx>>
    /\ UNCHANGED <<cli, arguments, disk, written, results, stdout, run, later, trail,
                   shadow>>

\* the for loop of main is through
MainExit ==
    /\ pc = "file"
    /\ idx > Len(disk)
    /\ pc' = "exit"
    /\ UNCHANGED <<cli, arguments, disk, written, results, stdout, log, idx, run,
                   state, stack, marks, later, trail, shadow>>

\* the program is started again, with the command line `later`, on the files
\* as the run before left them (a run that writes nothing back is started again
\* only to write back)
Rerun ==
    /\ pc \in {"exit", "panic"}
    /\ run < MaxRuns
    /\ later.files > 1 \/ (later.files = 1 /\ later.inplace)
    /\ run' = run + 1
    /\ cli' = later
    /\ arguments' = Flags(later)
    /\ results' = [i \in DOMAIN results |-> NoOutcome]
    /\ shadow' = [inplace |-> arguments.inplace, cli |-> cli, text |-> stdout,
                  trail |-> trail]
    /\ stdout' = <<>>
    /\ log' = <<>>
    /\ trail' = <<>>
    /\ state' = Dropped
    /\ stack' = <<>>
    /\ marks' = NoMarks
    /\ pc' = "start"
    /\ idx' = 1
    /\ UNCHANGED <<disk, written, later>>

-----------------------------------------------------------------------------
(* State::print_node, the default of the dispatcher.                       *)

PrintNode ==
    /\ Running("print_node")
    /\ IF Top.node.bad
       THEN Fail(World, Utf8Error)
       ELSE Step(print(World, Top.node.text), Rest) /\ UNCHANGED marks
    /\ UNCHANGED arguments

-----------------------------------------------------------------------------
(* format_block.                                                           *)

statements == {"arguments_statement", "class_definition", "comment", "for_statement",
               "function_definition", "if_statement", "switch_statement",
               "try_statement", "while_statement"}

indents == {<<"c", "v", "x", "_", "b", "e", "g", "i", "n">>,
            <<"s", "u", "b", "j", "e", "c", "t">>}

\* (the variant has no closing keyword)
dedents_none == {}
dedents == {<<"c", "v", "x", "_", "e", "n", "d">>}

IsPragma(text) == starts_with(text, <<"%", "#">>)

\* the run of comments that ends right before the block (prev_named_sibling)
RECURSIVE CommentsBefore(_)
CommentsBefore(prev) ==
    IF prev # <<>> /\ prev[Len(prev)].node.kind = "comment"
    THEN Append(CommentsBefore(SubSeq(prev, 1, Len(prev) - 1)), prev[Len(prev)])
    ELSE <<>>

\* the run of comments that starts right after the block (next_named_sibling)
RECURSIVE CommentsAfter(_)
CommentsAfter(next) ==
    IF next # <<>> /\ Head(next).node.kind = "comment"
    THEN <<Head(next)>> \o CommentsAfter(Tail(next))
    ELSE <<>>

\* named_children, with the comments around the block attached to it
named_children(f) ==
    SelectSeq(CommentsBefore(f.prev), LAMBDA e : ~IsPragma(e.node.text))
    \o SiblingEntries(f.node, f.path, 1, Len(f.node.children))
    \o CommentsAfter(f.next)

\* the routine up to its loop over the statements
FormatBlock ==
    /\ Running("format_block")
    /\ IF \E k \in 1..Len(CommentsBefore(Top.prev)) : CommentsBefore(Top.prev)[k].node.bad
       THEN Fail(indent([World EXCEPT !.extra_indentation = 0]), Utf8Error)
       ELSE /\ Step(indent([World EXCEPT !.extra_indentation = 0]),
                    <<[op |-> "block_loop", children |-> named_children(Top), i |-> 1,
                       phase |-> "pre", original_indentation |-> state.level,
                       s |-> 0, from |-> 0]>> \o Rest)
            /\ UNCHANGED marks
    /\ UNCHANGED arguments

\* There are some empty lines between nodes. Preserve one of them.
\* (the variant compares with 0 instead of 1)
BlankLineBeforeEveryRow(child, previous) == child.srow - previous.erow > 0
BlankLineBefore(child, previous) == child.srow - previous.erow > 1

\* Only assignments and comments are allowed on the same line.
\* (the variants: a line break before every statement; the rows alone decide)
NewLineBeforeAlways(child, previous) == TRUE
NewLineBeforeOtherRow(child, previous) == child.srow # previous.erow
NewLineBefore(child, previous) ==
    \/ /\ ~(child.kind = "assignment" /\ previous.kind = "assignment")
       /\ child.kind # "comment"
    \/ child.srow # previous.erow

\* the name of a command statement; its absence or a failed decode is an error
CommandFails(child) ==
    /\ child.kind = "command"
    /\ \/ Named(child.children) = <<>>
       \/ Named(child.children)[1].bad

CommandError(child) ==
    IF Named(child.children) = <<>> THEN err_at_loc(child) ELSE Utf8Error

CommandIn(child, names) ==
    /\ child.kind = "command"
    /\ Named(child.children)[1].text \in names

\* one iteration of the loop, up to the call of format_node on the statement
BlockChildPre ==
    /\ Running("block_loop")
    /\ Top.phase = "pre"
    /\ Top.i <= Len(Top.children)
    /\ LET f == Top
           e == f.children[f.i]
           child == e.node
           w1 == IF CommandIn(child, dedents)
                 THEN [World EXCEPT !.level = f.original_indentation]
                 ELSE World
           w2 == IF f.i > 1
                 THEN LET previous == f.children[f.i - 1].node
                          wa == IF BlankLineBefore(child, previous)
                                THEN println(w1, <<>>) ELSE w1
                      IN  IF NewLineBefore(child, previous)
                          THEN indent(println(wa, <<>>)) ELSE wa
                 ELSE w1
       IN  IF CommandFails(child)
           THEN Fail(World, CommandError(child))
           ELSE /\ Step(w2, <<CallTo(format_node(child.kind), child, e.path, <<>>, <<>>),
                              [f EXCEPT !.phase = "post", !.s = CountNL(Emitted(w2)),
                                        !.from = Len(Emitted(w2))]>>
                            \o Rest)
                /\ UNCHANGED marks
    /\ UNCHANGED arguments

\* Some statements don't have ; at the end, like if, for, while, etc.
\* (the variant terminates those too)
TerminatorAlways(child, next) ==
    IF /\ next # <<>>
       /\ child.kind = "assignment"
       /\ next[1].kind = "assignment"
       /\ child.erow = next[1].srow
    THEN <<",", " ">>
    ELSE <<";">>
Terminator(child, next) ==
    IF child.kind \in statements THEN <<>>
    ELSE IF /\ next # <<>>
            /\ child.kind = "assignment"
            /\ next[1].kind = "assignment"
            /\ child.erow = next[1].srow
         THEN <<",", " ">>
         ELSE <<";">>

\* the rest of the iteration, after format_node returned
BlockChildPost ==
    /\ Running("block_loop")
    /\ Top.phase = "post"
    /\ LET f == Top
           e == f.children[f.i]
           child == e.node
           next == IF f.i < Len(f.children) THEN <<f.children[f.i + 1].node>> ELSE <<>>
           w1 == [World EXCEPT !.extra_indentation = 0]
           w2 == IF CommandIn(child, indents) THEN [w1 EXCEPT !.level = @ + 1] ELSE w1
       IN  IF CommandFails(child)
           THEN Fail(w1, CommandError(child))
           ELSE /\ Step(print(w2, Terminator(child, next)),
                        <<[f EXCEPT !.phase = "pre", !.i = @ + 1]>> \o Rest)
                /\ marks' = (e.path :> [s |-> f.s, e |-> CountNL(Emitted(World)),
                                        text |-> SubSeq(Emitted(World), f.from + 1,
                                                        Len(Emitted(World)))])
                             @@ marks
    /\ UNCHANGED arguments

\* after the loop
BlockEnd ==
    /\ Running("block_loop")
    /\ Top.phase = "pre"
    /\ Top.i > Len(Top.children)
    /\ Step(println([World EXCEPT !.extra_indentation = 0,
                                  !.level = Top.original_indentation], <<>>),
            Rest)
    /\ UNCHANGED <<arguments, marks>>


-----------------------------------------------------------------------------
(* format_comment.                                                         *)

ends_with(t, p) == Len(t) >= Len(p) /\ SubSeq(t, Len(t) - Len(p) + 1, Len(t)) = p

MultiRow(node) == node.srow # node.erow

\* utf8_text(..).unwrap() and strip_suffix("%}").unwrap()
CommentPanics(node) ==
    \/ node.bad
    \/ /\ MultiRow(node)
       /\ starts_with(node.text, <<"%", "{">>)
       /\ ~ends_with(strip_prefix_or(node.text, <<"%", "{">>), <<"%", "}">>)

\* the lines of a %{ ... %} comment: trimmed, the empty ones dropped
RECURSIVE TrimAll(_)
TrimAll(lines) ==
    IF lines = <<>> THEN <<>> ELSE <<trim(Head(lines))>> \o TrimAll(Tail(lines))

BlockCommentLines(text) ==
    LET inner == strip_prefix_or(text, <<"%", "{">>)
        body == SubSeq(inner, 1, Len(inner) - 2)
    IN  SelectSeq(TrimAll(split_lines(body, <<>>)), LAMBDA l : l # <<>>)

RECURSIVE PrintBlockLines(_, _)
PrintBlockLines(w, lines) ==
    IF lines = <<>> THEN w
    ELSE PrintBlockLines(println(indent(w), Head(lines)), Tail(lines))

\* one line of a comment that spans several rows: l.trim().strip_prefix('%')...trim()
CommentLine(l) == trim(strip_prefix_or(trim(l), <<"%">>))

RECURSIVE PrintCommentLines(_, _, _)
PrintCommentLines(w, lines, i) ==
    IF i > Len(lines) THEN w
    ELSE LET line == trim(CommentLine(lines[i]))
             w1 == IF i # 1 THEN indent(println(w, <<>>)) ELSE w
             w2 == print(w1, <<"%">>)
             w3 == IF line # <<>> THEN print(w2, <<" ">>) ELSE w2
         IN  PrintCommentLines(print(w3, line), lines, i + 1)

Marker(text) == starts_with(text, <<"%", "#">>) \/ starts_with(text, <<"%", "%">>)

format_comment(w, node) ==
    LET text == node.text
    IN  IF MultiRow(node)
        THEN IF starts_with(text, <<"%", "{">>)
             THEN LET w1 == [println(w, <<"%", "{">>) EXCEPT !.extra_indentation = 2]
                      w2 == PrintBlockLines(w1, BlockCommentLines(text))
                  IN  print(indent([w2 EXCEPT !.extra_indentation = 0]), <<"%", "}">>)
             ELSE PrintCommentLines(w, split_lines(text, <<>>), 1)
        ELSE LET line == trim(strip_prefix_or(text, <<"%">>))
                 lead == IF w.col = w.level * 4 THEN <<"%">> ELSE <<" ", "%">>
                 w1 == print(w, lead)
                 w2 == IF ~Marker(text) /\ line # <<>> THEN print(w1, <<" ">>) ELSE w1
             IN  print(w2, line)

FormatComment ==
    /\ Running("format_comment")
    /\ IF CommentPanics(Top.node)
       THEN Panic(World)
       ELSE Step(format_comment(World, Top.node), Rest) /\ UNCHANGED marks
    /\ UNCHANGED arguments

-----------------------------------------------------------------------------
(* format_line_continuation.                                               *)
\* the space and the token
FormatLineContinuation ==
    /\ Running("format_line_continuation")
    /\ LET node == Top.node
           w1 == print(World, <<" ">>)
       IN  IF node.bad
           THEN Fail(w1, Utf8Error)
           ELSE /\ Step(print(w1, node.text),
                        <<[op |-> "line_continuation_end", node |-> node]>> \o Rest)
                /\ UNCHANGED marks
    /\ UNCHANGED arguments

\* the line break, if the token does not hold it, or else the cursor moved to
\* the start of the next row; then the indentation
LineContinuationEnd ==
    /\ Running("line_continuation_end")
    /\ LET node == Top.node
           w3 == IF node.srow = node.erow
                 THEN println(World, <<>>)
                 ELSE [World EXCEPT !.col = 0, !.row = @ + 1]
       IN  Step(indent(w3), Rest)
    /\ UNCHANGED <<arguments, marks>>

-----------------------------------------------------------------------------
(* format_assignment.                                                      *)

FormatAssignment ==
    /\ Running("format_assignment")
    /\ LET node == Top.node
           lhs == FieldIndex(node, "left")
           rhs == FieldIndex(node, "right")
       IN  IF lhs = 0 \/ rhs = 0
           THEN Fail(World, err_at_loc(node))
           ELSE /\ Step(World, <<Call(node, Top.path, lhs),
                                 [op |-> "assignment_rhs", node |-> node,
                                  path |-> Top.path, rhs |-> rhs]>> \o Rest)
                /\ UNCHANGED marks
    /\ UNCHANGED arguments

AssignmentRhs ==
    /\ Running("assignment_rhs")
    /\ Step(print(World, <<" ", "=", " ">>),
            <<Call(Top.node, Top.path, Top.rhs), [op |-> "assignment_end"]>> \o Rest)
    /\ UNCHANGED <<arguments, marks>>

AssignmentEnd ==
    /\ Running("assignment_end")
    /\ Step([World EXCEPT !.extra_indentation = 0], Rest)
    /\ UNCHANGED <<arguments, marks>>

-----------------------------------------------------------------------------
(* format_binary and format_boolean.                                       *)

\* a loop over node.children(): the frame is dropped once the loop is through
Loop(f) == IF f.i > Len(f.node.children) THEN <<>> ELSE <<f>>

add_ops == {<<"+">>, <<"-">>, <<".", "+">>, <<".", "-">>}

\* whether format_binary puts spaces around this operator
\* (the variant forgets sparse_math)
SpacedBinaryAddOnly(operator) == arguments.sparse_add /\ operator \in add_ops
SpacedBinary(operator) ==
    \/ arguments.sparse_math
    \/ arguments.sparse_add /\ operator \in add_ops

\* format_binary up to its loop; the variant does not latch the column on entry
FormatBinaryLatchAtOperator ==
    /\ Running("format_binary")
    /\ Step(World,
            Loop([op |-> "binary_loop", node |-> Top.node, path |-> Top.path, i |-> 1,
                  line_cont |-> FALSE]) \o Rest)
    /\ UNCHANGED <<arguments, marks>>

FormatBinary ==
    /\ Running("format_binary")
    /\ Step(maybe_set_extra_indentation(World, state.col - 4 * state.level),
            Loop([op |-> "binary_loop", node |-> Top.node, path |-> Top.path, i |-> 1,
                  line_cont |-> FALSE]) \o Rest)
    /\ UNCHANGED <<arguments, marks>>

BinaryChild ==
    /\ Running("binary_loop")
    /\ Top.node.children[Top.i].named
    /\ Step(World,
            <<Call(Top.node, Top.path, Top.i)>>
            \o Loop([Top EXCEPT !.i = @ + 1,
                         !.line_cont = Top.node.children[Top.i].kind = "line_continuation"])
            \o Rest)
    /\ UNCHANGED <<arguments, marks>>

BinaryOperator ==
    /\ Running("binary_loop")
    /\ ~Top.node.children[Top.i].named
    /\ LET child == Top.node.children[Top.i]
           operator == trim(child.text)
           w1 == IF SpacedBinary(operator) /\ ~Top.line_cont
                 THEN print(World, <<" ">>) ELSE World
           w2 == maybe_set_extra_indentation(w1, w1.col - 4 * w1.level)
           w3 == print(w2, operator)
           w4 == IF SpacedBinary(operator) THEN print(w3, <<" ">>) ELSE w3
       IN  IF child.bad
           THEN Fail(World, Utf8Error)
           ELSE Step(w4, Loop([Top EXCEPT !.i = @ + 1]) \o Rest) /\ UNCHANGED marks
    /\ UNCHANGED arguments

\* whether format_boolean puts spaces around this operator: it asks no option
\* (the variant asks the options that format_binary asks)
SpacedBooleanByOptions(operator) ==
    \/ arguments.sparse_math
    \/ arguments.sparse_add /\ operator \in add_ops
SpacedBoolean(operator) == TRUE

FormatBoolean ==
    /\ Running("format_boolean")
    /\ Step(maybe_set_extra_indentation(World, state.col - 4 * state.level),
            Loop([op |-> "boolean_loop", node |-> Top.node, path |-> Top.path, i |-> 1,
                  line_cont |-> FALSE]) \o Rest)
    /\ UNCHANGED <<arguments, marks>>

BooleanChild ==
    /\ Running("boolean_loop")
    /\ Top.node.children[Top.i].named
    /\ Step(World,
            <<Call(Top.node, Top.path, Top.i)>>
            \o Loop([Top EXCEPT !.i = @ + 1,
                         !.line_cont = Top.node.children[Top.i].kind = "line_continuation"])
            \o Rest)
    /\ UNCHANGED <<arguments, marks>>

BooleanOperator ==
    /\ Running("boolean_loop")
    /\ ~Top.node.children[Top.i].named
    /\ LET child == Top.node.children[Top.i]
           operator == trim(child.text)
           w1 == IF SpacedBoolean(operator) /\ ~Top.line_cont
                 THEN print(World, <<" ">>) ELSE World
           w2 == maybe_set_extra_indentation(w1, w1.col - 4 * w1.level)
           w3 == print(w2, operator)
           w4 == IF SpacedBoolean(operator) THEN print(w3, <<" ">>) ELSE w3
       IN  IF child.bad
           THEN Fail(World, Utf8Error)
           ELSE Step(w4, Loop([Top EXCEPT !.i = @ + 1]) \o Rest) /\ UNCHANGED marks
    /\ UNCHANGED arguments


-----------------------------------------------------------------------------
(* format_parenthesis.                                                     *)

NotContinuation(c) == c.kind # "line_continuation"

FormatParenthesis ==
    /\ Running("format_parenthesis")
    /\ LET node == Top.node
           child == FindIndex(node, LAMBDA c : c.named /\ NotContinuation(c))
           w1 == print(World, <<"(">>)
       IN  IF child = 0
           THEN Fail(World, err_at_loc(node))
           ELSE /\ Step(maybe_set_extra_indentation(w1, w1.col - 4 * w1.level),
                        <<Call(node, Top.path, child), [op |-> "parenthesis_end"]>>
                        \o Rest)
                /\ UNCHANGED marks
    /\ UNCHANGED arguments

ParenthesisEnd ==
    /\ Running("parenthesis_end")
    /\ Step(print(World, <<")">>), Rest)
    /\ UNCHANGED <<arguments, marks>>

-----------------------------------------------------------------------------
(* format_range.                                                           *)

\* the indices of the children that satisfy P, in order
RECURSIVE Indices(_, _, _)
Indices(n, P(_), i) ==
    IF i > Len(n.children) THEN <<>>
    ELSE (IF P(n.children[i]) THEN <<i>> ELSE <<>>) \o Indices(n, P, i + 1)

\* what the routine does to the spacing options before it renders the operands
RangeOverride(a) == [a EXCEPT !.sparse_math = FALSE]

\* what it does to them afterwards
RangeRestore(a, sparse) == [a EXCEPT !.sparse_math = sparse]

FormatRange ==
    /\ Running("format_range")
    /\ arguments' = RangeOverride(arguments)
    /\ Step(World,
            <<[op |-> "range_loop", node |-> Top.node, path |-> Top.path,
               todo |-> Indices(Top.node, LAMBDA c : c.named /\ NotContinuation(c), 1),
               first |-> TRUE, sparse |-> arguments.sparse_math]>> \o Rest)
    /\ UNCHANGED marks

RangeChild ==
    /\ Running("range_loop")
    /\ Top.todo # <<>>
    /\ Step(IF Top.first THEN World ELSE print(World, <<":">>),
            <<Call(Top.node, Top.path, Head(Top.todo)),
              [Top EXCEPT !.todo = Tail(@), !.first = FALSE]>> \o Rest)
    /\ UNCHANGED <<arguments, marks>>

RangeEnd ==
    /\ Running("range_loop")
    /\ Top.todo = <<>>
    /\ arguments' = RangeRestore(arguments, Top.sparse)
    /\ Step(World, Rest)
    /\ UNCHANGED marks

-----------------------------------------------------------------------------
(* format_command.                                                         *)

FormatCommand ==
    /\ Running("format_command")
    /\ Step(World, <<[op |-> "command_loop", node |-> Top.node, path |-> Top.path,
                      i |-> 1]>> \o Rest)
    /\ UNCHANGED <<arguments, marks>>

\* the end of the iteration on child i - 1 (if any): the column after the command name
AfterCommandChild(w, f) ==
    IF f.i > 1 /\ f.node.children[f.i - 1].kind = "command_name"
    THEN [w EXCEPT !.extra_indentation = w.col - 4 * w.level]
    ELSE w

CommandChild ==
    /\ Running("command_loop")
    /\ Top.i <= Len(Top.node.children)
    /\ LET w1 == AfterCommandChild(World, Top)
       IN  Step(IF Top.i # 1 THEN print(w1, <<" ">>) ELSE w1,
                <<Call(Top.node, Top.path, Top.i), [Top EXCEPT !.i = @ + 1]>> \o Rest)
    /\ UNCHANGED <<arguments, marks>>

CommandEnd ==
    /\ Running("command_loop")
    /\ Top.i > Len(Top.node.children)
    /\ Step([AfterCommandChild(World, Top) EXCEPT !.extra_indentation = 0], Rest)
    /\ UNCHANGED <<arguments, marks>>

-----------------------------------------------------------------------------
(* print_linter_comment, print_non_linter_comments and format_while.       *)

IsComment(c) == c.named /\ c.kind = "comment"

\* the closures of both routines unwrap the text of every comment child
BadComment(node) ==
    \E i \in 1..Len(node.children) : IsComment(node.children[i]) /\ node.children[i].bad

\* format_comment panics on one of the comments print_non_linter_comments renders
CommentsPanic(node) ==
    \E i \in 1..Len(node.children) :
        IsComment(node.children[i]) /\ CommentPanics(node.children[i])

RECURSIVE print_linter_comment(_, _, _)
print_linter_comment(w, node, i) ==
    IF i > Len(node.children) THEN w
    ELSE LET c == node.children[i]
         IN  print_linter_comment(
                 IF IsComment(c) /\ IsPragma(c.text) THEN format_comment(w, c) ELSE w,
                 node, i + 1)

RECURSIVE print_non_linter_comments(_, _, _)
print_non_linter_comments(w, node, i) ==
    IF i > Len(node.children) THEN w
    ELSE LET c == node.children[i]
         IN  print_non_linter_comments(
                 IF IsComment(c) /\ ~IsPragma(c.text)
                 THEN println(format_comment(indent(w), c), <<>>) ELSE w,
                 node, i + 1)

FormatWhile ==
    /\ Running("format_while")
    /\ LET node == Top.node
           condition == FieldIndex(node, "condition")
       IN  IF condition = 0
           THEN Fail(World, err_at_loc(node))
           ELSE /\ Step(print(World, <<"w", "h", "i", "l", "e", " ">>),
                        <<Call(node, Top.path, condition),
                          [op |-> "while_body", node |-> node, path |-> Top.path,
                           entry |-> state.level]>>
                        \o Rest)
                /\ UNCHANGED marks
    /\ UNCHANGED arguments

WhileBody ==
    /\ Running("while_body")
    /\ LET node == Top.node
           body == FindIndex(node, LAMBDA c : c.kind = "block")
           w1 == println(print_linter_comment(World, node, 1), <<>>)
           w2 == [w1 EXCEPT !.level = @ + 1]
       IN  IF BadComment(node) \/ (body = 0 /\ CommentsPanic(node))
           THEN Panic(World)
           ELSE /\ IF body # 0
                   THEN Step(w2, <<CallDirect("format_block", node, Top.path, body),
                                   [op |-> "while_end", entry |-> Top.entry]>> \o Rest)
                   ELSE Step(print_non_linter_comments(w2, node, 1),
                             <<[op |-> "while_end", entry |-> Top.entry]>> \o Rest)
                /\ UNCHANGED marks
    /\ UNCHANGED arguments

WhileEnd ==
    /\ Running("while_end")
    /\ Step(print(indent([World EXCEPT !.level = @ - 1]), <<"e", "n", "d">>), Rest)
    /\ UNCHANGED <<arguments, marks>>


-----------------------------------------------------------------------------
(* print_non_linter_comments_after, format_if and format_switch.           *)

\* the comments right after a clause (next_named_sibling), up to the first
\* node that is not a comment or is a pragma
RECURSIVE NonLinterRun(_)
NonLinterRun(next) ==
    IF next # <<>> /\ Head(next).node.kind = "comment" /\ ~IsPragma(Head(next).node.text)
    THEN <<Head(next).node>> \o NonLinterRun(Tail(next))
    ELSE <<>>

\* the loop unwraps the text of every comment it looks at, and format_comment
\* may panic on the ones it collected
RunPanics(next) ==
    LET found == NonLinterRun(next)
    IN  \/ \E k \in 1..Len(found) : CommentPanics(found[k])
        \/ /\ Len(next) > Len(found)
           /\ next[Len(found) + 1].node.kind = "comment"
           /\ next[Len(found) + 1].node.bad

RECURSIVE print_non_linter_comments_after(_, _)
print_non_linter_comments_after(w, comments) ==
    IF comments = <<>> THEN w
    ELSE print_non_linter_comments_after(
             println(format_comment(indent(w), Head(comments)), <<>>), Tail(comments))

\* the clauses format_if renders after its first block: every elseif_clause,
\* then the first else_clause
Clauses(node, repeated, single) ==
    LET last == FindIndex(node, LAMBDA c : c.named /\ c.kind = single)
    IN  Indices(node, LAMBDA c : c.named /\ c.kind = repeated, 1)
        \o (IF last = 0 THEN <<>> ELSE <<last>>)

FormatIf ==
    /\ Running("format_if")
    /\ LET node == Top.node
           condition == FieldIndex(node, "condition")
       IN  IF condition = 0
           THEN Fail(World, err_at_loc(node))
           ELSE /\ Step(print(World, <<"i", "f", " ">>),
                        <<Call(node, Top.path, condition),
                          [op |-> "if_body", node |-> node, path |-> Top.path,
                           entry |-> state.level]>> \o Rest)
                /\ UNCHANGED marks
    /\ UNCHANGED arguments

\* the end of the header line and the first block
IfBody ==
    /\ Running("if_body")
    /\ LET node == Top.node
           block == FindIndex(node, LAMBDA c : c.kind = "block")
           w1 == println(print_linter_comment(World, node, 1), <<>>)
           w2 == [w1 EXCEPT !.level = @ + 1]
           after == [op |-> "if_clause", node |-> node, path |-> Top.path,
                     todo |-> Clauses(node, "elseif_clause", "else_clause"),
                     entry |-> Top.entry]
       IN  IF BadComment(node) \/ (block = 0 /\ CommentsPanic(node))
           THEN Panic(World)
           ELSE /\ IF block # 0
                   THEN Step(w2, <<CallDirect("format_block", node, Top.path, block),
                                   after>> \o Rest)
                   ELSE Step(print_non_linter_comments(w2, node, 1), <<after>> \o Rest)
                /\ UNCHANGED marks
    /\ UNCHANGED arguments

\* one iteration of the loop over the elseif clauses, up to its condition
IfElseif ==
    /\ Running("if_clause")
    /\ Top.todo # <<>>
    /\ Top.node.children[Head(Top.todo)].kind = "elseif_clause"
    /\ LET i == Head(Top.todo)
           clause == Top.node.children[i]
           cpath == Append(Top.path, i)
           condition == FieldIndex(clause, "condition")
           w1 == [World EXCEPT !.level = @ - 1]
       IN  IF condition = 0
           THEN Fail(w1, err_at_loc(clause))
           ELSE /\ Step(print(indent(w1), <<"e", "l", "s", "e", "i", "f", " ">>),
                        <<Call(clause, cpath, condition),
                          [Top EXCEPT !.op = "elseif_body"]>> \o Rest)
                /\ UNCHANGED marks
    /\ UNCHANGED arguments

\* the end of the clause's header line and its block
ElseifBody ==
    /\ Running("elseif_body")
    /\ LET i == Head(Top.todo)
           clause == Top.node.children[i]
           cpath == Append(Top.path, i)
           next == SiblingEntries(Top.node, Top.path, i + 1, Len(Top.node.children))
           block == FindIndex(clause, LAMBDA c : c.kind = "block")
           w1 == println(print_linter_comment(World, clause, 1), <<>>)
           w2 == [w1 EXCEPT !.level = @ + 1, !.extra_indentation = 0]
           after == [Top EXCEPT !.op = "if_clause", !.todo = Tail(@)]
       IN  IF BadComment(clause) \/ (block = 0 /\ RunPanics(next))
           THEN Panic(World)
           ELSE /\ IF block # 0
                   THEN Step(w2, <<CallDirect("format_block", clause, cpath, block),
                                   after>> \o Rest)
                   ELSE Step(print_non_linter_comments_after(w2, NonLinterRun(next)),
                             <<after>> \o Rest)
                /\ UNCHANGED marks
    /\ UNCHANGED arguments

IfElse ==
    /\ Running("if_clause")
    /\ Top.todo # <<>>
    /\ Top.node.children[Head(Top.todo)].kind = "else_clause"
    /\ LET i == Head(Top.todo)
           clause == Top.node.children[i]
           cpath == Append(Top.path, i)
           next == SiblingEntries(Top.node, Top.path, i + 1, Len(Top.node.children))
           block == FindIndex(clause, LAMBDA c : c.kind = "block")
           w1 == println(indent([World EXCEPT !.level = @ - 1]), <<"e", "l", "s", "e">>)
           w2 == [w1 EXCEPT !.level = @ + 1]
           after == [Top EXCEPT !.todo = Tail(@)]
       IN  IF block = 0 /\ RunPanics(next)
           THEN Panic(World)
           ELSE /\ IF block # 0
                   THEN Step(w2, <<CallDirect("format_block", clause, cpath, block),
                                   after>> \o Rest)
                   ELSE Step(print_non_linter_comments_after(w2, NonLinterRun(next)),
                             <<after>> \o Rest)
                /\ UNCHANGED marks
    /\ UNCHANGED arguments

IfEnd ==
    /\ Running("if_clause")
    /\ Top.todo = <<>>
    /\ Step(print(indent([World EXCEPT !.level = @ - 1]), <<"e", "n", "d">>), Rest)
    /\ UNCHANGED <<arguments, marks>>

FormatSwitch ==
    /\ Running("format_switch")
    /\ LET node == Top.node
           condition == FieldIndex(node, "condition")
       IN  IF condition = 0
           THEN Fail(World, err_at_loc(node))
           ELSE /\ Step(print(World, <<"s", "w", "i", "t", "c", "h", " ">>),
                        <<Call(node, Top.path, condition),
                          [op |-> "switch_body", node |-> node, path |-> Top.path,
                           entry |-> state.level]>> \o Rest)
                /\ UNCHANGED marks
    /\ UNCHANGED arguments

\* the end of the header line; `inner` tells that a clause has been rendered
\* and its `level -= 1` is due
SwitchBody ==
    /\ Running("switch_body")
    /\ LET node == Top.node
           w1 == println(print_linter_comment(World, node, 1), <<>>)
       IN  IF BadComment(node)
           THEN Panic(World)
           ELSE /\ Step([w1 EXCEPT !.level = @ + 1],
                        <<[op |-> "switch_clause", node |-> node, path |-> Top.path,
                           todo |-> Clauses(node, "case_clause", "otherwise_clause"),
                           inner |-> FALSE, entry |-> Top.entry]>> \o Rest)
                /\ UNCHANGED marks
    /\ UNCHANGED arguments

\* the State after the previous clause, if there was one
\* (the variant forgets to lower the level)
AfterClauseKept(w, f) == w
AfterClause(w, f) == IF f.inner THEN [w EXCEPT !.level = @ - 1] ELSE w

\* one iteration of the loop over the cases, up to its condition
SwitchCase ==
    /\ Running("switch_clause")
    /\ Top.todo # <<>>
    /\ Top.node.children[Head(Top.todo)].kind = "case_clause"
    /\ LET i == Head(Top.todo)
           case == Top.node.children[i]
           condition == FieldIndex(case, "condition")
           w1 == AfterClause(World, Top)
       IN  IF condition = 0
           THEN Fail(w1, err_at_loc(case))
           ELSE /\ Step(print(indent(w1), <<"c", "a", "s", "e", " ">>),
                        <<Call(case, Append(Top.path, i), condition),
                          [Top EXCEPT !.op = "case_body"]>> \o Rest)
                /\ UNCHANGED marks
    /\ UNCHANGED arguments

CaseBody ==
    /\ Running("case_body")
    /\ LET i == Head(Top.todo)
           case == Top.node.children[i]
           block == FindIndex(case, LAMBDA c : c.kind = "block")
           w1 == println(print_linter_comment(World, case, 1), <<>>)
           w2 == [w1 EXCEPT !.level = @ + 1]
           after == [Top EXCEPT !.op = "switch_clause", !.todo = Tail(@), !.inner = TRUE]
       IN  IF BadComment(case) \/ (block = 0 /\ CommentsPanic(case))
           THEN Panic(World)
           ELSE /\ IF block # 0
                   THEN Step(w2, <<CallDirect("format_block", case, Append(Top.path, i),
                                              block), after>> \o Rest)
                   ELSE Step(print_non_linter_comments(w2, case, 1), <<after>> \o Rest)
                /\ UNCHANGED marks
    /\ UNCHANGED arguments

SwitchOtherwise ==
    /\ Running("switch_clause")
    /\ Top.todo # <<>>
    /\ Top.node.children[Head(Top.todo)].kind = "otherwise_clause"
    /\ LET i == Head(Top.todo)
           otherwise == Top.node.children[i]
           block == FindIndex(otherwise, LAMBDA c : c.kind = "block")
           w1 == println(indent(AfterClause(World, Top)),
                         <<"o", "t", "h", "e", "r", "w", "i", "s", "e">>)
           w2 == [w1 EXCEPT !.level = @ + 1]
           after == [Top EXCEPT !.todo = Tail(@), !.inner = TRUE]
       IN  IF block = 0 /\ (BadComment(otherwise) \/ CommentsPanic(otherwise))
           THEN Panic(World)
           ELSE /\ IF block # 0
                   THEN Step(w2, <<CallDirect("format_block", otherwise,
                                              Append(Top.path, i), block), after>>
                                 \o Rest)
                   ELSE Step(print_non_linter_comments(w2, otherwise, 1),
                             <<after>> \o Rest)
                /\ UNCHANGED marks
    /\ UNCHANGED arguments

SwitchEnd ==
    /\ Running("switch_clause")
    /\ Top.todo = <<>>
    /\ Step(print(indent([AfterClause(World, Top) EXCEPT !.level = @ - 1]),
                  <<"e", "n", "d">>), Rest)
    /\ UNCHANGED <<arguments, marks>>

-----------------------------------------------------------------------------
(* format_fncall and format_arguments.                                     *)

\* a loop over a list of children that is computed beforehand: the frame is
\* dropped once the list is through
More(f) == IF f.todo = <<>> THEN <<>> ELSE <<f>>

\* the bracket that ends the first loop of format_fncall
IsOpening(c) == ~c.named /\ c.text \in {<<"(">>, <<"{">>}

FormatFncall ==
    /\ Running("format_fncall")
    /\ Step(World, <<[op |-> "fncall_loop", node |-> Top.node, path |-> Top.path,
                      i |-> 1]>> \o Rest)
    /\ UNCHANGED <<arguments, marks>>

\* one iteration of the loop over what precedes the bracket
FncallChild ==
    /\ Running("fncall_loop")
    /\ Top.i <= Len(Top.node.children)
    /\ LET child == Top.node.children[Top.i]
           after == [Top EXCEPT !.i = @ + 1]
       IN  /\ child.kind = "line_continuation" \/ child.bad \/ ~IsOpening(child)
           /\ IF child.kind = "line_continuation"
              THEN Step(World, <<after>> \o Rest) /\ UNCHANGED marks
              ELSE IF ~child.named /\ child.bad
              THEN Fail(World, Utf8Error)
              ELSE /\ Step(World, <<Call(Top.node, Top.path, Top.i), after>> \o Rest)
                   /\ UNCHANGED marks
    /\ UNCHANGED arguments

\* the bracket, the column after it and the arguments
FncallOpen ==
    /\ Running("fncall_loop")
    /\ LET node == Top.node
           through == Top.i > Len(node.children)
           parens == through \/ node.children[Top.i].text # <<"{">>
           args == FindIndex(node, LAMBDA c : c.kind = "arguments")
           w1 == print(World, IF parens THEN <<"(">> ELSE <<"{">>)
           w2 == [w1 EXCEPT !.extra_indentation = w1.col - 4 * w1.level]
           after == [op |-> "fncall_end", parens |-> parens,
                     prev_extra |-> state.extra_indentation]
       IN  /\ through \/ (node.children[Top.i].kind # "line_continuation"
                          /\ ~node.children[Top.i].bad
                          /\ IsOpening(node.children[Top.i]))
           /\ IF args # 0
              THEN Step(w2, <<CallDirect("format_arguments", node, Top.path, args),
                              after>> \o Rest)
              ELSE Step(w2, <<after>> \o Rest)
    /\ UNCHANGED <<arguments, marks>>

FncallEnd ==
    /\ Running("fncall_end")
    /\ Step([print(World, IF Top.parens THEN <<")">> ELSE <<"}">>)
                EXCEPT !.extra_indentation = Top.prev_extra], Rest)
    /\ UNCHANGED <<arguments, marks>>

FormatArguments ==
    /\ Running("format_arguments")
    /\ Step(World,
            More([op |-> "arguments_loop", node |-> Top.node, path |-> Top.path,
                  todo |-> Indices(Top.node, LAMBDA c : c.named, 1), prev |-> 0])
            \o Rest)
    /\ UNCHANGED <<arguments, marks>>

\* one iteration; `prev` is the named child of the iteration before (0: none)
ArgumentsChild ==
    /\ Running("arguments_loop")
    /\ LET node == Top.node
           i == Head(Top.todo)
           separated == /\ Top.prev # 0
                        /\ node.children[Top.prev].kind # "line_continuation"
       IN  Step(IF separated THEN print(World, <<",", " ">>) ELSE World,
                <<Call(node, Top.path, i)>>
                \o More([Top EXCEPT !.todo = Tail(@), !.prev = i]) \o Rest)
    /\ UNCHANGED <<arguments, marks>>

-----------------------------------------------------------------------------
(* format_matrix and format_row.                                           *)

Opening(node) == IF node.kind = "matrix" THEN <<"[">> ELSE <<"{">>
Closing(node) == IF node.kind = "matrix" THEN <<"]">> ELSE <<"}">>

\* what format_matrix emits between two rows
\* (the variant never breaks the line)
RowSeparatorInline(w, multiline) == print(w, <<";", " ">>)
RowSeparator(w, multiline) ==
    IF multiline THEN indent(println(w, <<";">>)) ELSE print(w, <<";", " ">>)

\* the bracket and the column after it
FormatMatrix ==
    /\ Running("format_matrix")
    /\ LET w1 == print(World, Opening(Top.node))
       IN  Step([w1 EXCEPT !.extra_indentation = w1.col - 4 * w1.level],
                <<[op |-> "matrix_loop", node |-> Top.node, path |-> Top.path,
                   todo |-> Indices(Top.node, LAMBDA c : c.named, 1), first |-> TRUE,
                   prev_extra |-> state.extra_indentation]>> \o Rest)
    /\ UNCHANGED <<arguments, marks>>

\* an iteration on a comment
MatrixComment ==
    /\ Running("matrix_loop")
    /\ Top.todo # <<>>
    /\ Top.node.children[Head(Top.todo)].kind = "comment"
    /\ LET child == Top.node.children[Head(Top.todo)]
           w1 == IF ~Top.first THEN print(World, <<";">>) ELSE World
       IN  IF CommentPanics(child)
           THEN Panic(w1)
           ELSE /\ Step(indent(println(format_comment(w1, child), <<>>)),
                        <<[Top EXCEPT !.todo = Tail(@), !.first = TRUE]>> \o Rest)
                /\ UNCHANGED marks
    /\ UNCHANGED arguments

\* an iteration on a row (or on any other child), up to the call of format_node
MatrixRow ==
    /\ Running("matrix_loop")
    /\ Top.todo # <<>>
    /\ Top.node.children[Head(Top.todo)].kind # "comment"
    /\ LET i == Head(Top.todo)
           child == Top.node.children[i]
       IN  Step(IF ~Top.first THEN RowSeparator(World, MultiRow(Top.node)) ELSE World,
                <<Call(Top.node, Top.path, i),
                  [Top EXCEPT !.todo = Tail(@),
                              !.first = IF child.extra THEN @ ELSE FALSE]>> \o Rest)
    /\ UNCHANGED <<arguments, marks>>

MatrixEnd ==
    /\ Running("matrix_loop")
    /\ Top.todo = <<>>
    /\ Step([print(World, Closing(Top.node)) EXCEPT !.extra_indentation = Top.prev_extra],
            Rest)
    /\ UNCHANGED <<arguments, marks>>

FormatRow ==
    /\ Running("format_row")
    /\ Step(World,
            More([op |-> "row_loop", node |-> Top.node, path |-> Top.path,
                  todo |-> Indices(Top.node, LAMBDA c : c.named, 1), first |-> TRUE])
            \o Rest)
    /\ UNCHANGED <<arguments, marks>>

RowChild ==
    /\ Running("row_loop")
    /\ LET i == Head(Top.todo)
           child == Top.node.children[i]
       IN  Step(IF ~Top.first /\ ~child.extra THEN print(World, <<" ">>) ELSE World,
                <<Call(Top.node, Top.path, i)>>
                \o More([Top EXCEPT !.todo = Tail(@), !.first = child.extra]) \o Rest)
    /\ UNCHANGED <<arguments, marks>>

-----------------------------------------------------------------------------
(* Inputs: syntax trees as tree-sitter-matlab builds them.                 *)

Id(c) == Leaf("identifier", <<c>>)
Num(c) == Leaf("number", <<c>>)
Comment(text) == Extra(Leaf("comment", text))

\* a continuation token that holds its line break, and one that does not
LCm == Extra(Leaf("line_continuation", <<".", ".", ".", NL>>))
LCs == Extra(Leaf("line_continuation", <<".", ".", ".">>))

\* the token after a continuation that does not hold its line break is on the next row
WithBreaks(children) ==
    [i \in 1..Len(children) |->
        IF /\ i > 1
           /\ children[i - 1].kind = "line_continuation"
           /\ CountNL(children[i - 1].text) = 0
        THEN Gap(children[i], 1)
        ELSE children[i]]

NoLC == [at |-> "none", tok |-> LCm]
LCModes == {NoLC} \cup {[at |-> a, tok |-> t] : a \in {"before", "after"}, t \in {LCm, LCs}}

Operation(kind, l, op, r, lc) ==
    Tree(kind, WithBreaks(<<l>>
                          \o (IF lc.at = "before" THEN <<lc.tok>> ELSE <<>>)
                          \o <<Tok(op)>>
                          \o (IF lc.at = "after" THEN <<lc.tok>> ELSE <<>>)
                          \o <<r>>))

Binary(l, op, r, lc) == Operation("binary_operator", l, op, r, lc)
Comparison(l, op, r, lc) == Operation("comparison_operator", l, op, r, lc)
Boolean(l, op, r, lc) == Operation("boolean_operator", l, op, r, lc)

Assign(l, r) == Tree("assignment", <<Field(l, "left"), Tok(<<"=">>), Field(r, "right")>>)
Paren(e) == Tree("parenthesis", <<Tok(<<"(">>), e, Tok(<<")">>)>>)
EmptyParen == Tree("parenthesis", <<Tok(<<"(">>), Tok(<<")">>)>>)
Range2(x, y) == Tree("range", <<x, Tok(<<":">>), y>>)
Range3(x, y, z) == Tree("range", <<x, Tok(<<":">>), y, Tok(<<":">>), z>>)
Command(name, args) == Tree("command", <<Leaf("command_name", name)>> \o args)
Block(stmts) == Tree("block", stmts)
While(cond, stmts) ==
    Tree("while_statement",
         <<Tok(<<"w", "h", "i", "l", "e">>), Field(cond, "condition")>>
         \o (IF stmts = <<>> THEN <<>> ELSE <<Gap(Block(stmts), 1)>>)
         \o <<Gap(Tok(<<"e", "n", "d">>), 1)>>)

\* the body of a compound statement: a block on the rows below the header
Body(stmts) == IF stmts = <<>> THEN <<>> ELSE <<Gap(Block(stmts), 1)>>

\* `comments` are the comments on the header line, after the header expression
If(cond, comments, stmts, clauses) ==
    Tree("if_statement",
         <<Tok(<<"i", "f">>), Field(cond, "condition")>> \o comments \o Body(stmts)
         \o clauses \o <<Gap(Tok(<<"e", "n", "d">>), 1)>>)
Elseif(cond, comments, stmts) ==
    Gap(Tree("elseif_clause",
             <<Tok(<<"e", "l", "s", "e", "i", "f">>), Field(cond, "condition")>>
             \o comments \o Body(stmts)), 1)
Else(stmts) == Gap(Tree("else_clause", <<Tok(<<"e", "l", "s", "e">>)>> \o Body(stmts)), 1)
Switch(cond, comments, clauses) ==
    Tree("switch_statement",
         <<Tok(<<"s", "w", "i", "t", "c", "h">>), Field(cond, "condition")>> \o comments
         \o clauses \o <<Gap(Tok(<<"e", "n", "d">>), 1)>>)
Case(cond, comments, stmts) ==
    Gap(Tree("case_clause",
             <<Tok(<<"c", "a", "s", "e">>), Field(cond, "condition")>>
             \o comments \o Body(stmts)), 1)
Otherwise(stmts) ==
    Gap(Tree("otherwise_clause",
             <<Tok(<<"o", "t", "h", "e", "r", "w", "i", "s", "e">>)>> \o Body(stmts)), 1)

Row(elements) == Tree("row", elements)
Matrix(rows, close) == Tree("matrix", <<Tok(<<"[">>)>> \o rows \o <<Gap(Tok(<<"]">>), close)>>)
Cell(rows, close) == Tree("cell", <<Tok(<<"{">>)>> \o rows \o <<Gap(Tok(<<"}">>), close)>>)
Fncall(name, args) ==
    Tree("function_call",
         <<Field(Id(name), "name"), Tok(<<"(">>), Tree("arguments", WithBreaks(args)),
           Tok(<<")">>)>>)

\* a parsed file: the root node and whether it reports a syntax error
Program(stmts) == [root |-> Place(Tree("source_file", stmts), 0), has_error |-> FALSE]
Broken(stmts) == [root |-> Place(Tree("source_file", stmts), 0), has_error |-> TRUE]

A == Id("a")
B == Id("b")
C == Id("c")
X == Id("x")

BinaryOps == {<<"+">>, <<"*">>, <<".", "-">>}

\* expressions with operators, continuations and ranges
Operations ==
    {Binary(A, op, B, lc) : op \in BinaryOps, lc \in LCModes}
    \cup {Comparison(A, <<"<">>, B, lc) : lc \in LCModes}
    \cup {Boolean(A, <<"&", "&">>, B, lc) : lc \in LCModes}
    \cup {Binary(Binary(A, <<"*">>, B, NoLC), <<"+">>, C, lc) : lc \in LCModes}
    \cup {Paren(Binary(A, <<"+">>, B, lc)) : lc \in LCModes}

Ranges ==
    {Range2(A, B), Range3(A, B, C), Range2(EmptyParen, B),
     Range2(A, Binary(B, <<"+">>, C, NoLC)),
     Range2(Paren(Comparison(A, <<"<">>, B, NoLC)), C),
     Tree("range", <<A, LCm, Tok(<<":">>), B>>)}
    \cup {Range2(Binary(A, op, B, NoLC), C) : op \in BinaryOps}

Expressions == Operations \cup Ranges

\* one statement, bare or assigned, at the top level or in the body of a loop
ExprPrograms ==
    LET stmts == Expressions \cup {Assign(X, e) : e \in Expressions}
    IN  {Program(<<s>>) : s \in stmts} \cup {Program(<<While(A, <<s>>)>>) : s \in stmts}

\* a file that runs through every formatting routine of the model
Sink ==
    Program(<<Comment(<<"%", "c">>),
              Gap(While(Comparison(A, <<"<">>, B, NoLC),
                        <<Command(<<"c", "v", "x", "_", "b", "e", "g", "i", "n">>,
                                  <<Leaf("command_argument", <<"q">>)>>),
                          Gap(Assign(X, Range2(Paren(Boolean(A, <<"&", "&">>, B, NoLC)),
                                               Binary(B, <<"+">>, C,
                                                      [at |-> "after", tok |-> LCm]))), 1)
                        >>), 2),
              Gap(If(A, <<Comment(<<"%", "#", "o", "k">>)>>, <<Assign(X, Num("1"))>>,
                     <<Elseif(B, <<>>, <<Id("f")>>), Else(<<Id("f")>>)>>), 1),
              Gap(Switch(A, <<>>, <<Case(B, <<>>, <<Id("f")>>), Otherwise(<<>>)>>), 1),
              Gap(Assign(X, Fncall("f", <<A, Matrix(<<Row(<<Num("1"), Num("2")>>),
                                                      Comment(<<"%", "c">>),
                                                      Gap(Row(<<Num("3")>>), 1)>>, 0)>>)),
                  1)>>)

\* a file whose pass fails
FailSink == Program(<<Range2(EmptyParen, B)>>)

Sinks == {Sink, FailSink}

NoShadow ==
    [inplace |-> FALSE,
     cli |-> [files |-> 0, sparse_math |-> FALSE, sparse_add |-> FALSE, inplace |-> FALSE],
     text |-> <<>>, trail |-> <<>>]

\* the inputs, the command line of the first start and that of the later ones
InitThen(inputs, c, again) ==
    /\ cli = c
    /\ arguments = Flags(c)
    /\ disk = inputs
    /\ written = [i \in 1..Len(inputs) |-> <<>>]
    /\ results = [i \in 1..Len(inputs) |-> NoOutcome]
    /\ stdout = <<>>
    /\ log = <<>>
    /\ pc = "start"
    /\ idx = 1
    /\ run = 1
    /\ state = Dropped
    /\ stack = <<>>
    /\ marks = NoMarks
    /\ later = again
    /\ trail = <<>>
    /\ shadow = NoShadow

InitWith(inputs, c) == InitThen(inputs, c, c)

CommandLines(n) ==
    {[files |-> n, sparse_math |-> sm, sparse_add |-> sa, inplace |-> ip] :
        sm \in BOOLEAN, sa \in BOOLEAN, ip \in BOOLEAN}

InitExpr ==
    \E t \in ExprPrograms \cup Sinks : \E c \in CommandLines(1) : InitWith(<<t>>, c)

\* statements of a block: assignments (on one row and on two), a bare expression,
\* comments, a loop and the commands that open and close an indented region
Statements ==
    {Assign(X, Num("1")),
     Assign(X, Binary(A, <<"+">>, B, [at |-> "after", tok |-> LCm])),
     Id("f"),
     Comment(<<"%", "c">>),
     Comment(<<"%", " ", " ", "c", NL, " ", "%", "%", "d">>),
     Comment(<<"%", "{", NL, "c", NL, NL, "%", "}">>),
     While(A, <<Assign(X, Num("1")), Gap(Id("f"), 2)>>),
     Command(<<"c", "v", "x", "_", "b", "e", "g", "i", "n">>, <<>>),
     Command(<<"c", "v", "x", "_", "e", "n", "d">>, <<>>)}

\* a comment runs to the end of its row: nothing follows it on the same row;
\* the "%{" of a block comment is alone on its row
FitsAfter(previous, s) ==
    (\/ previous.kind = "comment"
     \/ s.kind = "comment" /\ starts_with(s.text, <<"%", "{">>)) => s.gap >= 1

RECURSIVE StatementLists(_)
StatementLists(n) ==
    IF n = 1 THEN {<<s>> : s \in Statements}
    ELSE LET shorter == StatementLists(n - 1)
         IN  shorter \cup
             {Append(l, Gap(s, g)) : l \in {k \in shorter : Len(k) = n - 1},
                                      s \in Statements,
                                      g \in 0..MaxGap}

BlockPrograms ==
    {Program(l) : l \in {k \in StatementLists(MaxStmts) :
                            \A i \in 2..Len(k) : FitsAfter(k[i - 1], k[i])}}

InitBlock ==
    \E t \in BlockPrograms \cup Sinks : \E ip \in BOOLEAN :
        InitWith(<<t>>, [files |-> 1, sparse_math |-> FALSE, sparse_add |-> FALSE,
                         inplace |-> ip])

\* a comment line that starts with "%{" and goes on, merged by the lexer with
\* the comment line below it: a comment of two rows that starts with "%{" and
\* does not end with "%}"
Unclosed == Comment(<<"%", "{", " ", "c", NL, "%", " ", "d">>)

\* compound statements: a header with or without a comment on its line (a pragma
\* on one row, a pragma that the lexer merged with the comment line below it,
\* an ordinary comment) over a body (none, a statement, a statement whose
\* rendering fails, a comment on which format_comment panics, a cvx_begin left
\* open)
HeaderComments ==
    {<<>>,
     <<Comment(<<"%", "#", "o", "k">>)>>,
     <<Comment(<<"%", "#", "o", "k", NL, " ", "%", " ", "n">>)>>,
     <<Comment(<<"%", " ", "c">>)>>}

Bodies ==
    {<<>>,
     <<Assign(X, Num("1"))>>,
     <<Gap(Range2(EmptyParen, B), 1)>>,
     <<Unclosed>>,
     <<Command(<<"c", "v", "x", "_", "b", "e", "g", "i", "n">>, <<>>), Gap(Id("f"), 1)>>}

WhileWith(cond, comments, stmts) ==
    Tree("while_statement",
         <<Tok(<<"w", "h", "i", "l", "e">>), Field(cond, "condition")>> \o comments
         \o Body(stmts) \o <<Gap(Tok(<<"e", "n", "d">>), 1)>>)

\* (a comment on the header line is not followed by a comment on the next row:
\* the lexer would have merged the two)
CompoundsWith(h) ==
    UNION {{WhileWith(A, h, b),
            If(A, h, b, <<>>),
            If(A, <<>>, <<Id("f")>>, <<Elseif(B, h, b), Else(b)>>),
            Switch(A, h, <<Case(B, <<>>, b)>>),
            Switch(A, <<>>, <<Case(B, h, b), Otherwise(b)>>),
            If(A, <<>>, <<>>, <<Elseif(EmptyParen, h, b)>>),
            Switch(A, <<>>, <<Case(B, h, b), Case(EmptyParen, <<>>, b)>>)}
           : b \in {c \in Bodies : h # <<>> /\ c # <<>> => c[1].kind # "comment"}}

Compounds == UNION {CompoundsWith(h) : h \in HeaderComments}

\* at the top level, or nested in loops up to the depth MaxDepth
RECURSIVE Nested(_, _)
Nested(s, d) == IF d <= 1 THEN s ELSE While(A, <<Nested(s, d - 1)>>)

NestPrograms == {Program(<<Nested(s, d)>>) : s \in Compounds, d \in 1..MaxDepth}

InitNest ==
    \E t \in NestPrograms \cup Sinks : \E ip \in BOOLEAN :
        InitWith(<<t>>, [files |-> 1, sparse_math |-> FALSE, sparse_add |-> FALSE,
                         inplace |-> ip])

\* compound statements with comments among their children: on the header line
\* (a pragma or an ordinary comment), and on a row of its own after the block,
\* or in its place, of the statement or of a clause (a pragma or an ordinary
\* comment).  A comment that ends a block or a clause is a child of the node
\* around it: the parser moves the extras that end a node out of it.
OnHeader == {<<>>, <<Comment(<<"%", "#", "o", "k">>)>>, <<Comment(<<"%", " ", "c">>)>>}
OnOwnRow ==
    {<<>>, <<Gap(Comment(<<"%", " ", "d">>), 1)>>, <<Gap(Comment(<<"%", "#", "k", "o">>), 1)>>}
OneBody == {<<>>, <<Assign(X, Num("1"))>>}

\* (a comment on the header line is not followed by a comment on the next row:
\* the lexer would have merged the two)
Shapes ==
    {hbt \in OnHeader \X OneBody \X OnOwnRow :
        ~(hbt[1] # <<>> /\ hbt[2] = <<>> /\ hbt[3] # <<>>)}

IfTree(h, b, t, clauses) ==
    Tree("if_statement",
         <<Tok(<<"i", "f">>), Field(A, "condition")>> \o h \o Body(b) \o t
         \o clauses \o <<Gap(Tok(<<"e", "n", "d">>), 1)>>)

\* (a clause without a block ends with its condition: a comment after it is a
\* child of the statement, not of the clause)
ClauseShapes == {hbt \in Shapes : hbt[1] # <<>> => hbt[2] # <<>>}

Commented ==
    UNION {{Tree("while_statement",
                 <<Tok(<<"w", "h", "i", "l", "e">>), Field(A, "condition")>> \o hbt[1]
                 \o Body(hbt[2]) \o hbt[3] \o <<Gap(Tok(<<"e", "n", "d">>), 1)>>),
            IfTree(hbt[1], hbt[2], hbt[3], <<>>),
            Switch(A, hbt[1], <<Case(B, <<>>, <<Id("f")>>), Otherwise(hbt[2])>> \o hbt[3])}
           : hbt \in Shapes}
    \cup
    UNION {{IfTree(<<>>, <<Id("f")>>, <<>>, <<Elseif(B, hbt[1], hbt[2])>> \o hbt[3]),
            IfTree(<<>>, <<>>, <<Gap(Comment(<<"%", " ", "e">>), 1)>>,
                   <<Elseif(B, hbt[1], hbt[2])>> \o hbt[3]),
            IfTree(<<>>, <<Id("f")>>, <<>>, <<Else(hbt[2])>> \o hbt[3]),
            Switch(A, <<>>, <<Case(B, hbt[1], hbt[2])>> \o hbt[3])}
           : hbt \in ClauseShapes}

CommentPrograms == {Program(<<s>>) : s \in Commented}

InitComments ==
    \E t \in CommentPrograms \cup Sinks : \E ip \in BOOLEAN :
        InitWith(<<t>>, [files |-> 1, sparse_math |-> FALSE, sparse_add |-> FALSE,
                         inplace |-> ip])

\* blocks of cvx commands: sequences of up to MaxCmds statements among
\* cvx_begin, `subject to`, cvx_end and an assignment, each on the row after
\* the one before it, as the program and as the body of a loop
CvxStatements ==
    {Command(<<"c", "v", "x", "_", "b", "e", "g", "i", "n">>, <<>>),
     Command(<<"s", "u", "b", "j", "e", "c", "t">>,
             <<Leaf("command_argument", <<"t", "o">>)>>),
     Command(<<"c", "v", "x", "_", "e", "n", "d">>, <<>>),
     Assign(X, Num("1"))}

RECURSIVE CvxLists(_)
CvxLists(n) ==
    IF n = 1 THEN {<<s>> : s \in CvxStatements}
    ELSE LET shorter == CvxLists(n - 1)
         IN  shorter \cup
             {Append(l, Gap(s, 1)) : l \in {k \in shorter : Len(k) = n - 1},
                                     s \in CvxStatements}

CvxPrograms ==
    {Program(l) : l \in CvxLists(MaxCmds)}
    \cup {Program(<<While(A, l)>>) : l \in CvxLists(MaxCmds)}

InitCvx ==
    \E t \in CvxPrograms \cup Sinks : \E ip \in BOOLEAN :
        InitWith(<<t>>, [files |-> 1, sparse_math |-> FALSE, sparse_add |-> FALSE,
                         inplace |-> ip])

\* matrix and cell literals of up to MaxRows rows: every row after the first on
\* the row of the one before it or on the next, the closing bracket likewise,
\* with or without a comment after the first row
RowOf(k) == Row(IF k = 1 THEN <<Num("1"), Num("2")>> ELSE <<Num("3")>>)

RECURSIVE RowLists(_)
RowLists(n) ==
    IF n = 1 THEN {<<RowOf(1)>>, <<RowOf(1), Comment(<<"%", "c">>)>>}
    ELSE LET shorter == RowLists(n - 1)
         IN  shorter \cup
             {Append(l, Gap(RowOf(n), g)) :
                 l \in {k \in shorter : Len(SelectSeq(k, LAMBDA c : c.kind = "row")) = n - 1},
                 g \in 0..1}

Closed(l) ==
    UNION {{Matrix(l, g), Cell(l, g)} :
              g \in {h \in 0..1 : l[Len(l)].kind = "comment" => h = 1}}

Literals ==
    UNION {Closed(l) : l \in {k \in RowLists(MaxRows) :
                                 \A i \in 2..Len(k) : FitsAfter(k[i - 1], k[i])}}

\* calls with a line continuation among their arguments
Calls ==
    {Fncall("f", <<A, lc, B>>) : lc \in {LCm, LCs}}
    \cup {Fncall("f", <<Binary(A, <<"+">>, B, [at |-> "after", tok |-> LCm])>>),
          Fncall("f", <<>>),
          Tree("function_call", <<Field(Id("f"), "name"), LCm, Tok(<<"{">>),
                                  Tree("arguments", <<A>>), Tok(<<"}">>)>>)}

\* a literal or a call as a statement, assigned, as an operand, as an argument,
\* and in the body of a loop
LiteralPrograms ==
    LET stmts == UNION {{e, Assign(X, e), Binary(A, <<"+">>, e, NoLC),
                         Assign(X, Binary(e, <<"+">>, B, [at |-> "after", tok |-> LCm])),
                         Fncall("g", <<A, e>>)} : e \in Literals \cup Calls}
    IN  {Program(<<s>>) : s \in stmts} \cup {Program(<<While(A, <<s>>)>>) : s \in stmts}

InitLiteral ==
    \E t \in LiteralPrograms \cup Sinks : \E ip \in BOOLEAN :
        InitWith(<<t>>, [files |-> 1, sparse_math |-> FALSE, sparse_add |-> FALSE,
                         inplace |-> ip])

\* blocks in which expressions follow cvx commands: sequences of up to MaxCmds
\* statements among cvx_begin, `subject to`, cvx_end, an operation on a literal
\* that goes on on the next row, and a call on a parenthesised condition, each
\* on the row after the one before it, as the program and as the body of a loop
AlignStatements ==
    {Command(<<"c", "v", "x", "_", "b", "e", "g", "i", "n">>, <<>>),
     Command(<<"s", "u", "b", "j", "e", "c", "t">>,
             <<Leaf("command_argument", <<"t", "o">>)>>),
     Command(<<"c", "v", "x", "_", "e", "n", "d">>, <<>>),
     Binary(A, <<"+">>, Matrix(<<RowOf(1)>>, 0), [at |-> "after", tok |-> LCm]),
     Fncall("f", <<Paren(Boolean(A, <<"&", "&">>, B, NoLC))>>)}

RECURSIVE AlignLists(_)
AlignLists(n) ==
    IF n = 1 THEN {<<s>> : s \in AlignStatements}
    ELSE LET shorter == AlignLists(n - 1)
         IN  shorter \cup
             {Append(l, Gap(s, 1)) : l \in {k \in shorter : Len(k) = n - 1},
                                     s \in AlignStatements}

AlignPrograms ==
    {Program(l) : l \in AlignLists(MaxCmds)}
    \cup {Program(<<While(A, l)>>) : l \in AlignLists(MaxCmds)}

InitAlign ==
    \E t \in AlignPrograms \cup Sinks : \E ip \in BOOLEAN :
        InitWith(<<t>>, [files |-> 1, sparse_math |-> FALSE, sparse_add |-> FALSE,
                         inplace |-> ip])

\* one file formatted to the output sink, then started again on the same file
\* with --inplace and the same options otherwise
ModePrograms ==
    NestPrograms \cup LiteralPrograms \cup {Program(<<s>>) : s \in Expressions}

InitModes ==
    \E t \in ModePrograms \cup Sinks : \E sm \in BOOLEAN, sa \in BOOLEAN :
        LET c == [files |-> 1, sparse_math |-> sm, sparse_add |-> sa, inplace |-> FALSE]
        IN  InitThen(<<t>>, c, [c EXCEPT !.inplace = TRUE])

\* the files of a command line: with or without operators and ranges, one that
\* fails inside a range, one with a syntax error
Files ==
    {Program(<<Binary(A, <<"+">>, B, NoLC)>>),
     Program(<<Assign(X, Num("1"))>>),
     Program(<<Range2(EmptyParen, B)>>),
     Program(<<Unclosed>>),
     Broken(<<A>>)}

RECURSIVE FileLists(_)
FileLists(n) ==
    IF n = 0 THEN {<<>>}
    ELSE LET shorter == FileLists(n - 1)
         IN  shorter \cup {Append(l, f) : l \in {k \in shorter : Len(k) = n - 1},
                                          f \in Files}

\* no file on the command line: the one input is read from stdin
InitMain ==
    \/ \E l \in FileLists(MaxFiles) \ {<<>>} : \E c \in CommandLines(Len(l)) :
          InitWith(l, c)
    \/ \E f \in Files : \E c \in CommandLines(0) : InitWith(<<f>>, c)
    \/ \E t \in Sinks : \E c \in CommandLines(1) : InitWith(<<t>>, c)

Init ==
    \/ InitExpr \/ InitBlock \/ InitMain \/ InitNest \/ InitLiteral \/ InitModes
    \/ InitCvx \/ InitComments \/ InitAlign

Next ==
    \/ MainStart
    \/ BeautifyFile
    \/ BeautifyReturn
    \/ BeautifyFails
    \/ MainExit
    \/ Rerun
    \/ PrintNode
    \/ FormatBlock
    \/ BlockChildPre
    \/ BlockChildPost
    \/ BlockEnd
    \/ FormatComment
    \/ FormatLineContinuation
    \/ LineContinuationEnd
    \/ FormatAssignment
    \/ AssignmentRhs
    \/ AssignmentEnd
    \/ FormatBinary
    \/ BinaryChild
    \/ BinaryOperator
    \/ FormatBoolean
    \/ BooleanChild
    \/ BooleanOperator
    \/ FormatParenthesis
    \/ ParenthesisEnd
    \/ FormatRange
    \/ RangeChild
    \/ RangeEnd
    \/ FormatCommand
    \/ CommandChild
    \/ CommandEnd
    \/ FormatWhile
    \/ WhileBody
    \/ WhileEnd
    \/ FormatIf
    \/ IfBody
    \/ IfElseif
    \/ ElseifBody
    \/ IfElse
    \/ IfEnd
    \/ FormatSwitch
    \/ SwitchBody
    \/ SwitchCase
    \/ CaseBody
    \/ SwitchOtherwise
    \/ SwitchEnd
    \/ FormatFncall
    \/ FncallChild
    \/ FncallOpen
    \/ FncallEnd
    \/ FormatArguments
    \/ ArgumentsChild
    \/ FormatMatrix
    \/ MatrixComment
    \/ MatrixRow
    \/ MatrixEnd
    \/ FormatRow
    \/ RowChild

SpecExpr == InitExpr /\ [][Next]_vars

SpecBlock == InitBlock /\ [][Next]_vars

\* one file, of either family
SpecOneFile == (InitExpr \/ InitBlock) /\ [][Next]_vars

SpecMain == InitMain /\ [][Next]_vars

SpecNest == InitNest /\ [][Next]_vars
SpecCvx == InitCvx /\ [][Next]_vars
SpecComments == InitComments /\ [][Next]_vars
SpecAlign == InitAlign /\ [][Next]_vars

SpecLiteral == InitLiteral /\ [][Next]_vars

SpecModes == InitModes /\ [][Next]_vars

Spec == Init /\ [][Next]_vars


-----------------------------------------------------------------------------
(* Properties.                                                             *)

\* the node at a path of child indices
RECURSIVE NodeAt(_, _)
NodeAt(n, path) ==
    IF path = <<>> THEN n ELSE NodeAt(n.children[Head(path)], Tail(path))

\* the text the running pass has emitted, and what the step being taken adds to it
Output == Emitted(World)
Appended == SubSeq(Output', Len(Output) + 1, Len(Output'))

\* C3: a tree whose root reports a syntax error is refused before the State
\* exists and before anything is emitted: no pass ever runs on such a tree,
\* beautify returns an error for it, nothing is written back for it, and in
\* the streaming mode (one input) the output sink stays empty.
C3_SyntaxErrorRefused ==
    /\ pc = "pass" => ~disk[idx].has_error
    /\ \A i \in DOMAIN disk :
          disk[i].has_error =>
              /\ results[i].status \in {"none", "err"}
              /\ written[i] = <<>>
              /\ (i = idx => state = Dropped /\ stack = <<>>)
    /\ (Len(disk) = 1 /\ disk[1].has_error) => stdout = <<>>

\* a file with a syntax error has been handed to beautify, after a file that
\* was formatted
C3_Witness ==
    \E i \in DOMAIN disk :
        /\ disk[i].has_error
        /\ results[i].status = "err"
        /\ \E j \in 1..(i - 1) : results[j].status = "ok"

\* the statements of blocks that the pass has rendered so far, as pairs of
\* paths <<previous, current>> of adjacent statements
AdjacentRendered ==
    {pq \in (DOMAIN marks) \X (DOMAIN marks) :
        /\ pq[1] # <<>> /\ pq[2] # <<>>
        /\ SubSeq(pq[1], 1, Len(pq[1]) - 1) = SubSeq(pq[2], 1, Len(pq[2]) - 1)
        /\ pq[2][Len(pq[2])] = pq[1][Len(pq[1])] + 1}

\* the number of source rows from the end of the previous to the start of the current
RowsApart(pq) ==
    NodeAt(disk[idx].root, pq[2]).srow - NodeAt(disk[idx].root, pq[1]).erow

\* the output rows strictly between the two statements
RowsBetween(pq) == (marks[pq[1]].e + 1)..(marks[pq[2]].s - 1)

Unterminated ==
    {"comment", "if_statement", "for_statement", "while_statement", "switch_statement",
     "try_statement", "function_definition", "class_definition", "arguments_statement"}

\* the statement the loop of format_block has just rendered, and the one after it
Rendered == Top.children[Top.i].node
Following == Top.children[Top.i + 1].node

\* C5: after a statement format_block emits nothing when its kind is exempt,
\* ", " when it and the next statement are assignments and it ends on the row
\* on which the next one starts, and ";" otherwise (the last statement included).
C5_TerminatorPolicy ==
    [][(Running("block_loop") /\ Top.phase = "post" /\ pc' = "pass") =>
        Appended = IF Rendered.kind \in Unterminated THEN <<>>
                   ELSE IF /\ Top.i < Len(Top.children)
                           /\ Rendered.kind = "assignment"
                           /\ Following.kind = "assignment"
                           /\ Rendered.erow = Following.srow
                        THEN <<",", " ">>
                        ELSE <<";">>]_vars

\* the pass has just emitted ", " after an assignment that shares its row with the next
C5_Witness ==
    /\ Running("block_loop") /\ Top.phase = "pre"
    /\ 1 < Top.i /\ Top.i <= Len(Top.children)
    /\ Top.children[Top.i - 1].node.kind = "assignment"
    /\ Top.children[Top.i].node.kind = "assignment"
    /\ Top.children[Top.i - 1].node.erow = Top.children[Top.i].node.srow
    /\ Len(Output) > 1 /\ SubSeq(Output, Len(Output) - 1, Len(Output)) = <<",", " ">>

\* the formatter is rendering an operand of a range
InsideRange == \E k \in 1..Len(stack) : stack[k].op = "range_loop"

\* the loop of format_binary or format_boolean is at an operator token
OperatorStep(loop) ==
    /\ Running(loop)
    /\ ~Top.node.children[Top.i].named
    /\ pc' = "pass"

Operator == trim(Top.node.children[Top.i].text)

\* the operator is the first token after a line continuation
AfterContinuation ==
    Top.i > 1 /\ Top.node.children[Top.i - 1].kind = "line_continuation"

Wide(operator) == <<" ">> \o operator \o <<" ">>

AddSub == {<<"+">>, <<"-">>, <<".", "+">>, <<".", "-">>}

\* C6 as stated: the operator of a binary_operator node is emitted bare with
\* no option set, with one space on each side under sparse_math, and under
\* sparse_add alone with one space on each side exactly for + - .+ .-
C6_AsStated ==
    [][OperatorStep("binary_loop") =>
        Appended = IF cli.sparse_math \/ (cli.sparse_add /\ Operator \in AddSub)
                   THEN Wide(Operator) ELSE Operator]_vars

\* C6: the operator of a binary_operator node is spaced when sparse_math is
\* set and the node is not inside a range, or when sparse_add is set and the
\* operator is one of + - .+ .-; a spaced operator gets one space after it,
\* and one space before it unless it is the first token after a line
\* continuation; every other operator is emitted bare.
C6_BinarySpacing ==
    [][OperatorStep("binary_loop") =>
        Appended = IF \/ cli.sparse_math /\ ~InsideRange
                      \/ cli.sparse_add /\ Operator \in AddSub
                   THEN IF AfterContinuation THEN Operator \o <<" ">> ELSE Wide(Operator)
                   ELSE Operator]_vars

\* under sparse_math a binary operator has just been emitted right after a continuation
C6_Witness ==
    /\ Running("binary_loop")
    /\ Top.i > 2
    /\ ~Top.node.children[Top.i - 1].named
    /\ Top.node.children[Top.i - 2].kind = "line_continuation"
    /\ cli.sparse_math /\ ~InsideRange
    /\ Output[Len(Output)] = " "

\* C7 as stated: a comparison or boolean operator is emitted bare under
\* operator_spacing = none, and with surrounding spaces only when the
\* configured mode enables spacing for it
C7_AsStated ==
    [][OperatorStep("boolean_loop") =>
        Appended = IF cli.sparse_math \/ (cli.sparse_add /\ Operator \in AddSub)
                   THEN Wide(Operator) ELSE Operator]_vars

\* C7: under every configuration a comparison or boolean operator is emitted
\* with one space after it, and one space before it unless it is the first
\* token after a line continuation; the spacing options are not consulted.
C7_BooleanSpacing ==
    [][OperatorStep("boolean_loop") =>
        Appended = IF AfterContinuation THEN Operator \o <<" ">> ELSE Wide(Operator)]_vars

\* with no spacing option set a comparison or boolean operator has just been
\* emitted with a space on each side
C7_Witness ==
    /\ Running("boolean_loop")
    /\ Top.i > 1
    /\ ~Top.node.children[Top.i - 1].named
    /\ ~cli.sparse_math /\ ~cli.sparse_add
    /\ LET operator == Wide(trim(Top.node.children[Top.i - 1].text))
       IN  /\ Len(Output) >= Len(operator)
           /\ SubSeq(Output, Len(Output) - Len(operator) + 1, Len(Output)) = operator

\* C8 as stated: under every configuration the operands of a range are joined
\* by a bare ":" and every operator rendered inside an operand is emitted
\* without spaces
C8_AsStated ==
    [][(pc = "pass" /\ pc' = "pass" /\ InsideRange) =>
        /\ (Running("range_loop") /\ Top.todo # <<>> /\ ~Top.first) => Appended = <<":">>
        /\ (Running("binary_loop") /\ ~Top.node.children[Top.i].named) =>
               Appended = Operator
        /\ (Running("boolean_loop") /\ ~Top.node.children[Top.i].named) =>
               Appended = Operator]_vars

Lines == split_lines(Output, <<>>)
LastLine == Lines[Len(Lines)]
LineBefore == Lines[Len(Lines) - 1]

Dots == <<" ", ".", ".", ".">>

\* a line continuation has just been emitted: the line before ends with it and
\* the line being written holds nothing but its indentation
JustContinued ==
    /\ pc = "pass"
    /\ ~Running("line_continuation_end")
    /\ Len(Lines) >= 2
    /\ Len(LineBefore) >= Len(Dots)
    /\ SubSeq(LineBefore, Len(LineBefore) - Len(Dots) + 1, Len(LineBefore)) = Dots
    /\ \A k \in 1..Len(LastLine) : LastLine[k] = " "

\* the line before, without the continuation token
FirstLine == SubSeq(LineBefore, 1, Len(LineBefore) - Len(Dots))

\* the column (from 0) of the first character of t that is in S, -1 when there is none
ColumnOf(t, S) ==
    IF \E k \in 1..Len(t) : t[k] \in S
    THEN (CHOOSE k \in 1..Len(t) : t[k] \in S /\ \A j \in 1..(k - 1) : t[j] \notin S) - 1
    ELSE 0 - 1

OperatorChars == {"+", "-", "*", ".", "<", "&"}
OperatorKinds == {"binary_operator", "comparison_operator", "boolean_operator"}

\* the statement that the innermost running format_block is rendering
CurrentStatement ==
    LET k == CHOOSE k \in 1..Len(stack) :
                 /\ stack[k].op = "block_loop"
                 /\ \A j \in 1..(k - 1) : stack[j].op # "block_loop"
    IN  stack[k].children[stack[k].i].node

\* its expression: the right-hand side of an assignment, or the statement itself
ExpressionOf(stmt) ==
    IF stmt.kind = "assignment" THEN stmt.children[FieldIndex(stmt, "right")] ELSE stmt

\* the statement is an operator expression, bare or assigned, possibly in parentheses
OperatorStatement ==
    LET e == ExpressionOf(CurrentStatement)
    IN  \/ e.kind \in OperatorKinds
        \/ /\ e.kind = "parenthesis"
           /\ \E k \in 1..Len(e.children) : e.children[k].kind \in OperatorKinds

\* the column at which the operator expression of the statement starts on the first line
ExpressionColumn ==
    LET stmt == CurrentStatement
        rhs == IF stmt.kind = "assignment" THEN ColumnOf(FirstLine, {"="}) + 2
               ELSE 4 * state.level
    IN  IF ExpressionOf(stmt).kind = "parenthesis" THEN rhs + 1 ELSE rhs

HeaderOps == {"while_body", "if_body", "elseif_body", "switch_body", "case_body"}
AtHeader == pc = "pass" /\ stack # <<>> /\ Top.op \in HeaderOps
HeaderNode ==
    IF Top.op \in {"elseif_body", "case_body"}
    THEN Top.node.children[Head(Top.todo)] ELSE Top.node

\* the pragma comments attached to the header: those between the header
\* expression and the body
HeaderPragmas(node) ==
    {i \in 1..Len(node.children) :
        /\ IsComment(node.children[i])
        /\ IsPragma(node.children[i].text)
        /\ \A j \in 1..(i - 1) : node.children[j].kind \notin
              {"block", "elseif_clause", "else_clause", "case_clause", "otherwise_clause"}}

\* the comments as they stand in the source, each after one space
RECURSIVE Inline(_, _)
Inline(node, i) ==
    IF i > Len(node.children) THEN <<>>
    ELSE (IF i \in HeaderPragmas(node) THEN <<" ">> \o node.children[i].text ELSE <<>>)
         \o Inline(node, i + 1)

\* the step that ends the header line
HeaderStep == AtHeader /\ pc' = "pass" /\ stack' # stack

\* C11 (as stated): a pragma comment attached to the header of an if, elseif,
\* while, switch or case is emitted on the header's line: what the routine emits
\* between the header expression and the body starts with the pragma comments
\* followed by the line break of the header line; and the block below does not render
\* them again on lines of their own.
C11_AsStated ==
    [][/\ HeaderStep => starts_with(Appended, Inline(HeaderNode, 1) \o <<NL>>)
       /\ (Running("format_block") /\ pc' = "pass") =>
             \A k \in 1..Len(stack'[1].children) :
                 (\E j \in 1..Len(Top.prev) : Top.prev[j] = stack'[1].children[k])
                 => ~IsPragma(stack'[1].children[k].node.text)]_vars

\* the same for the pragma comments that lie on one source row: the case in
\* which the routines do what the claim says
OneRowPragmas ==
    \A i \in HeaderPragmas(HeaderNode) : ~MultiRow(HeaderNode.children[i])

C11_OneRowPragmaInline ==
    [][/\ (HeaderStep /\ OneRowPragmas)
          => starts_with(Appended, Inline(HeaderNode, 1) \o <<NL>>)
       /\ (Running("format_block") /\ pc' = "pass") =>
             \A k \in 1..Len(stack'[1].children) :
                 (\E j \in 1..Len(Top.prev) : Top.prev[j] = stack'[1].children[k])
                 => ~IsPragma(stack'[1].children[k].node.text)]_vars

\* a header line with a one-row pragma has been ended
C11_Witness ==
    /\ pc = "pass"
    /\ \E k \in 1..Len(stack) :
          /\ stack[k].op \in {"if_clause", "switch_clause", "while_end"}
    /\ ends_with(Output, <<" ", "%", "#", "o", "k", NL>>)

\* the routine of a literal is about to render a row, or to close the literal
AtMatrixRow ==
    /\ Running("matrix_loop")
    /\ Top.todo # <<>>
    /\ Top.node.children[Head(Top.todo)].kind # "comment"
AtMatrixEnd == Running("matrix_loop") /\ Top.todo = <<>>

\* the column just after the last opening bracket of a literal in the output
\* (the literals of the inputs are not nested)
OpenColumn ==
    LET at == {k \in 1..Len(Output) : Output[k] \in {"[", "{"}}
        open == CHOOSE k \in at : \A j \in at : j <= k
        breaks == {k \in 1..open : Output[k] = NL}
    IN  IF breaks = {} THEN open
        ELSE open - (CHOOSE k \in breaks : \A j \in breaks : j <= k)

\* the text emitted since that bracket
SinceOpen ==
    LET at == {k \in 1..Len(Output) : Output[k] \in {"[", "{"}}
        open == CHOOSE k \in at : \A j \in at : j <= k
    IN  SubSeq(Output, open + 1, Len(Output))

HasRows(node) == \E k \in 1..Len(node.children) : node.children[k].kind = "row"

C13_AsStated ==
    [][(pc = "pass" /\ pc' # "pass") =>
          \/ stack = <<>> /\ results'[idx].status = "ok"
          \/ /\ pc' = "failed"
             /\ results'[idx].status = "err"
             /\ results'[idx].error.located]_vars

IsPrefix(t, u) == Len(t) <= Len(u) /\ SubSeq(u, 1, Len(t)) = t

\* the run before formatted the same file to the output sink under the same
\* options, and this run formats it into the buffer
Comparable ==
    /\ run > 1
    /\ Len(disk) = 1
    /\ ~shadow.inplace
    /\ arguments.inplace
    /\ cli = [shadow.cli EXCEPT !.inplace = TRUE]

\* C14: for the same tree and configuration, the characters appended to the
\* buffer in in-place mode are the characters written to the output sink in
\* streaming mode, and col and row take the same values step after step: at
\* every moment of the in-place pass the buffer and the cursor history are
\* prefixes of those of the streaming pass, and when the pass is over (with a
\* text, an error or a panic) they are equal.
C14_ModeEquivalence ==
    Comparable =>
        /\ pc = "pass" => IsPrefix(state.formatted, shadow.text) /\ IsPrefix(trail, shadow.trail)
        /\ pc = "failed" => state.formatted = shadow.text /\ trail = shadow.trail
        /\ (pc \in {"file", "exit", "panic"} /\ idx > 1) =>
              /\ trail = shadow.trail
              /\ results[1].status = "ok" =>
                    /\ results[1].text = shadow.text
                    /\ written[1][Len(written[1])] = shadow.text

\* both passes are over and have emitted several lines
C14_Witness ==
    /\ Comparable
    /\ pc = "exit"
    /\ results[1].status = "ok"
    /\ CountNL(results[1].text) >= 3
    /\ Len(trail) >= 10

\* the frames of the routines that raise the level around a nested block, and
\* of format_block, with the level at the routine's entry
Levelled == {"while_body", "while_end", "if_body", "if_clause", "elseif_body",
             "switch_body", "switch_clause", "case_body", "block_loop"}
EntryLevel(f) == IF f.op = "block_loop" THEN f.original_indentation ELSE f.entry

\* the routine of the frame on top returns Ok
ReturnsOk == pc = "pass" /\ pc' = "pass" /\ stack # <<>> /\ stack' = Rest

\* a `?` makes every routine in progress return Err
ReturnsErr == pc = "pass" /\ pc' = "failed"

AtLatch ==
    /\ pc = "pass"
    /\ stack # <<>>
    /\ \/ Top.op \in {"format_binary", "format_boolean", "format_parenthesis"}
       \/ /\ Top.op \in {"binary_loop", "boolean_loop"}
          /\ ~Top.node.children[Top.i].named

\* the control is at the bracket of a call or of a literal, where the column
\* after the bracket is assigned to extra_indentation
AtOverride ==
    /\ pc = "pass"
    /\ stack # <<>>
    /\ \/ Top.op = "format_matrix"
       \/ /\ Top.op = "fncall_loop"
          /\ \/ Top.i > Len(Top.node.children)
             \/ /\ Top.node.children[Top.i].kind # "line_continuation"
                /\ IsOpening(Top.node.children[Top.i])

\* the call or the literal returns
AtRestore == pc = "pass" /\ stack # <<>> /\ Top.op \in {"fncall_end", "matrix_loop"}
                         /\ (Top.op = "matrix_loop" => Top.todo = <<>>)

\* the end of a statement of a block
AtStatementEnd == Running("block_loop") /\ Top.phase = "post"

Stepped == pc' = "pass"

\* C16 (as stated): once a routine has set extra_indentation in a statement,
\* every later request of an alignment column in the same statement leaves it
\* unchanged.
C16_AsStated ==
    [][((AtLatch \/ AtOverride) /\ Stepped /\ state.extra_indentation # 0)
          => state'.extra_indentation = state.extra_indentation]_vars

\* C16 (amended): a request made through maybe_set_extra_indentation sets
\* extra_indentation (to the current column, or to the one after the space or
\* the parenthesis the routine emits first) when it is 0 and leaves it
\* unchanged otherwise;
\* format_fncall and format_matrix assign the column after their bracket
\* whatever the current value and put the value they found back when they
\* return; extra_indentation is 0 again after every statement of a block.
C16_LatchAndOverride ==
    [][/\ (AtLatch /\ Stepped /\ state.extra_indentation # 0)
             => state'.extra_indentation = state.extra_indentation
       /\ (AtLatch /\ Stepped /\ state.extra_indentation = 0)
             => state'.extra_indentation \in {state.col - 4 * state.level,
                                              state.col + 1 - 4 * state.level}
       /\ (AtOverride /\ Stepped)
             => state'.extra_indentation = state'.col - 4 * state'.level
       /\ (AtRestore /\ Stepped) => state'.extra_indentation = Top.prev_extra
       /\ (AtStatementEnd /\ Stepped) => state'.extra_indentation = 0]_vars

\* a request is about to be made while extra_indentation holds another column
C16_Witness ==
    /\ AtLatch
    /\ state.extra_indentation # 0
    /\ state.extra_indentation # state.col - 4 * state.level

\* the characters emitted since the last line break
SinceBreak == Len(LastLine)

\* format_line_continuation has printed a token and not yet set the cursor
InContinuation == Running("line_continuation_end")

RECURSIVE HoldsBreak(_)
HoldsBreak(node) ==
    \/ node.kind = "line_continuation" /\ MultiRow(node)
    \/ \E k \in 1..Len(node.children) : HoldsBreak(node.children[k])

Current == Top.children[Top.i].node
Previous == Top.children[Top.i - 1].node

\* the loop of format_block is at a statement that has a predecessor
AtAdjacent ==
    /\ Running("block_loop")
    /\ Top.phase = "pre"
    /\ Top.i > 1
    /\ Top.i <= Len(Top.children)

\* the pair the policy keeps on one line
SameLine ==
    /\ Current.srow = Previous.erow
    /\ \/ Current.kind = "assignment" /\ Previous.kind = "assignment"
       \/ Current.kind = "comment"

\* C18: the current statement of a block goes on the output line of the
\* previous one exactly when it starts on the row on which the previous one
\* ends and both are assignments or the current one is a comment; otherwise a
\* line break and the indentation are emitted before it (after the empty line
\* that is kept for statements more than one row apart).
C18_SameLinePolicy ==
    [][(AtAdjacent /\ pc' = "pass") =>
        IF SameLine
        THEN /\ Appended = <<>>
             /\ Output # <<>>
             /\ Output[Len(Output)] # NL
        ELSE /\ Appended \in {<<NL>> \o Spaces(4 * state'.level),
                              <<NL, NL>> \o Spaces(4 * state'.level)}
             /\ state'.col = 4 * state'.level]_vars

\* the loop of format_block has reached a statement that stays on the line of
\* the one before it, and is about to render it
C18_Witness ==
    /\ pc = "pass"
    /\ Len(stack) >= 2
    /\ stack[2].op = "block_loop"
    /\ stack[2].phase = "post"
    /\ stack[2].i > 1
    /\ Len(Output) = stack[2].from
    /\ LET child == stack[2].children[stack[2].i].node
           previous == stack[2].children[stack[2].i - 1].node
       IN  /\ child.srow = previous.erow
           /\ child.kind \in {"assignment", "comment"}
           /\ previous.kind = "assignment"
    /\ Output[Len(Output)] # NL

\* the name of a command statement (no name for the other kinds)
NameOf(child) == IF child.kind = "command" THEN Named(child.children)[1].text ELSE <<>>

RaisingNames == {<<"c", "v", "x", "_", "b", "e", "g", "i", "n">>,
                 <<"s", "u", "b", "j", "e", "c", "t">>}
ClosingName == <<"c", "v", "x", "_", "e", "n", "d">>

\* the level at which statement i of a block is rendered: the level at the
\* block's entry for a cvx_end, and else one more for every cvx_begin and
\* subject since the last cvx_end before it
RECURSIVE LevelAt(_, _, _)
LevelAt(children, i, entry) ==
    IF i = 0 THEN entry
    ELSE IF NameOf(children[i].node) = ClosingName THEN entry
    ELSE IF i = 1 THEN entry
    ELSE LevelAt(children, i - 1, entry)
         + (IF NameOf(children[i - 1].node) \in RaisingNames THEN 1 ELSE 0)

\* C19: in a block, cvx_begin and subject raise level by one for the
\* statements after them, cvx_end is printed at, and resets level to, the
\* level at the block's entry, and the block returns with the level of its
\* entry whatever commands it held.
C19_CommandNesting ==
    [][(Running("block_loop") /\ Stepped) =>
        LET f == Top
        IN  IF f.phase = "post"
            THEN state'.level = state.level
                                + (IF NameOf(Rendered) \in RaisingNames THEN 1 ELSE 0)
            ELSE IF f.i > Len(f.children)
            THEN state'.level = f.original_indentation
            ELSE /\ state'.level = LevelAt(f.children, f.i, f.original_indentation)
                 /\ NameOf(f.children[f.i].node) = ClosingName =>
                        /\ state'.level = f.original_indentation
                        /\ state'.col = 4 * f.original_indentation]_vars

\* the body of a loop that holds a cvx_end has reached its end with the level
\* raised again by a command after it
C19_Witness ==
    /\ Running("block_loop")
    /\ Top.phase = "pre"
    /\ Top.i > Len(Top.children)
    /\ Top.original_indentation = 1
    /\ state.level > 1
    /\ \E k \in 1..Len(Top.children) : NameOf(Top.children[k].node) = ClosingName

\* a step that writes a file back
Overwrites(i) == written'[i] # written[i]

\* the run stops: the loop of main is through, or the process dies
Stops == pc \notin {"exit", "panic"} /\ pc' \in {"exit", "panic"}

\* C20 (as stated): in in-place mode a file whose pass fails is never written,
\* every file after it is still processed, and a file is overwritten only with
\* the complete text that a successful pass on it returned.
C20_AsStated ==
    [][/\ \A i \in 1..Len(disk) :
             Overwrites(i) => /\ arguments.inplace
                              /\ i = idx
                              /\ results'[i].status = "ok"
                              /\ written'[i] = Append(written[i], results'[i].text)
                              /\ results'[i].text = state.formatted
       /\ (arguments.inplace /\ Stops) => idx' >= Len(disk)]_vars

\* the kinds of the control-flow constructs and of their clauses
ConstructKinds ==
    {"if_statement", "elseif_clause", "else_clause", "for_statement", "while_statement",
     "switch_statement", "case_clause", "otherwise_clause", "try_statement",
     "catch_clause"}

\* the comments that are children of a construct or of a clause, in a tree
RECURSIVE ConstructComments(_)
ConstructComments(node) ==
    (IF node.kind \in ConstructKinds
     THEN {node.children[k] : k \in {j \in 1..Len(node.children) :
                                        IsComment(node.children[j])}}
     ELSE {})
    \cup UNION {ConstructComments(node.children[k]) : k \in 1..Len(node.children)}

\* a comment of one row as the output shows it, without the space that may
\* separate it from the text before it
Shown(c) ==
    IF IsPragma(c.text) THEN c.text ELSE <<"%", " ">> \o trim(Tail(c.text))

\* the number of places of a text at which another text occurs
Occurrences(t, p) ==
    Cardinality({k \in 1..(Len(t) - Len(p) + 1) : SubSeq(t, k, k + Len(p) - 1) = p})

\* the pass is through: format_block on the root has returned Ok
PassDone == pc = "pass" /\ stack = <<>>

\* C21 (as stated): every comment that is a child of a control-flow construct
\* or of one of its clauses is in the output of the pass exactly once.
C21_AsStated ==
    PassDone =>
        \A c \in ConstructComments(disk[idx].root) :
            ~MultiRow(c) => Occurrences(Output, Shown(c)) = 1

\* format_command has rendered the name of the command
AtCommandName ==
    /\ Running("command_loop")
    /\ Top.i > 1
    /\ Top.node.children[Top.i - 1].kind = "command_name"

\* the next step evaluates col - 4 * level
AtSubtraction == AtLatch \/ AtOverride \/ AtCommandName

\* C22: wherever a routine evaluates col - 4 * level, col is at least
\* 4 * level, and level never goes below zero, whatever cvx commands the
\* blocks hold; so no alignment column is the result of an underflow.
C22_NoUnderflow ==
    pc = "pass" =>
        /\ state.level >= 0
        /\ state.extra_indentation >= 0
        /\ AtSubtraction => state.col >= 4 * state.level

\* an operation that starts a line is reached two levels deep, after a cvx
\* command in the body of a loop: col - 4 * level is 0 there
C22_Witness ==
    /\ Running("format_binary")
    /\ state.level >= 2
    /\ state.col = 4 * state.level
    /\ \E k \in 1..Len(stack) :
          stack[k].op = "block_loop" /\ stack[k].original_indentation = 1

=============================================================================
